---------------------------- MODULE Spec2Model ----------------------------
(***************************************************************************)
(* A model of the Alipay subscription demo (examples/nextjs-subscription)  *)
(* and of the request-signing / notification-verification subsystem it     *)
(* relies on.                                                              *)
(*                                                                         *)
(* Two variants of lib/alipay.ts and of the notify route are part of the   *)
(* repository: the "mock" variant (a missing key configuration falls back  *)
(* to simulated payments) and the "strict" variant (a missing key          *)
(* configuration is an error).  The variable `variant` selects one.        *)
(*                                                                         *)
(* Strings are sequences of one-character strings, so that substrings and  *)
(* byte-wise order are what they are in the program.  A parameter mapping  *)
(* is a JavaScript object: a sequence of <<key, value>> pairs with         *)
(* distinct keys, in insertion order.                                      *)
(*                                                                         *)
(* RSA is modelled symbolically: a signature names the private key, the    *)
(* digest and the signed content, and verifies under exactly the matching  *)
(* public key, the same digest and the same content.                       *)
(***************************************************************************)
EXTENDS Integers, Sequences, FiniteSets, TLC

\* ------------------------------------------------------------------ bounds

\* The largest number of entries of a parameter mapping given to sign.
MaxParams == 2

\* The number of createOrder calls (each draws a fresh order id).
MaxOrders == 2

\* ------------------------------------------------------------ value model

Undefined == [t |-> "undefined"]

Null == [t |-> "null"]

Str(chars) == [t |-> "str", s |-> chars]

IsStr(v) == v.t = "str"

\* A JavaScript value that is falsy among the values of the model.
Falsy(v) == v.t \in {"undefined", "null"} \/ (v.t = "str" /\ v.s = <<>>)

\* ---------------------------------------------------------------- strings

\* The byte (UTF-16 code unit) of each character that occurs in a key.
CharCode(c) ==
    CASE c = "&" -> 38  [] c = "=" -> 61  [] c = "Z" -> 90  [] c = "_" -> 95
      [] c = "a" -> 97  [] c = "d" -> 100 [] c = "e" -> 101 [] c = "g" -> 103
      [] c = "i" -> 105 [] c = "k" -> 107 [] c = "n" -> 110 [] c = "o" -> 111
      [] c = "p" -> 112 [] c = "r" -> 114 [] c = "s" -> 115 [] c = "t" -> 116
      [] c = "u" -> 117 [] c = "y" -> 121 [] c = "z" -> 122

\* The character a case-insensitive (locale) collation compares.
FoldCase(c) == IF c = "Z" THEN "z" ELSE c

RECURSIVE StrLessBy(_, _, _)
\* a < b in the lexicographic order of the character codes, `fold` first
\* folding the case of each character.
StrLessBy(a, b, fold) ==
    IF b = <<>> THEN FALSE
    ELSE IF a = <<>> THEN TRUE
    ELSE LET ca == CharCode(IF fold THEN FoldCase(Head(a)) ELSE Head(a))
             cb == CharCode(IF fold THEN FoldCase(Head(b)) ELSE Head(b))
         IN  IF ca # cb THEN ca < cb ELSE StrLessBy(Tail(a), Tail(b), fold)

\* A comparison by locale collation: what Array.prototype.sort's default
\* order is not.
KeyLessLocale(a, b) == StrLessBy(a, b, TRUE)

\* The default order of Array.prototype.sort on strings: byte-wise.
KeyLess(a, b) == StrLessBy(a, b, FALSE)

\* needle occurs in hay as a contiguous substring.
Contains(hay, needle) ==
    \E i \in 1..(Len(hay) + 1) :
        /\ i + Len(needle) - 1 <= Len(hay)
        /\ SubSeq(hay, i, i + Len(needle) - 1) = needle

\* --------------------------------------------------------------- mappings

KeysOf(m) == [i \in 1..Len(m) |-> m[i][1]]

HasKey(m, k) == \E i \in 1..Len(m) : m[i][1] = k

\* m[k]: undefined for a key the object does not have.
Get(m, k) ==
    IF HasKey(m, k) THEN m[CHOOSE i \in 1..Len(m) : m[i][1] = k][2]
    ELSE Undefined

\* {...m, [k]: v}: an existing key keeps its place, a new key goes last.
Put(m, k, v) ==
    IF HasKey(m, k)
    THEN [i \in 1..Len(m) |-> IF m[i][1] = k THEN <<k, v>> ELSE m[i]]
    ELSE Append(m, <<k, v>>)

\* delete m[k] for every k of ks.
Without(m, ks) == SelectSeq(m, LAMBDA e : e[1] \notin ks)

\* --------------------------------------------------------- canonicalizer

\* An entry that is dropped before signing: undefined, null or "".
Excluded(v) == v.t \in {"undefined", "null"} \/ (v.t = "str" /\ v.s = <<>>)

DropExcluded(m) == SelectSeq(m, LAMBDA e : ~Excluded(e[2]))

RECURSIVE InsertSorted(_, _)
InsertSorted(e, sorted) ==
    IF sorted = <<>> THEN <<e>>
    ELSE IF KeyLess(e[1], Head(sorted)[1]) THEN <<e>> \o sorted
    ELSE <<Head(sorted)>> \o InsertSorted(e, Tail(sorted))

\* The entries of m in the object's insertion order: no sort at all.
SortInsertion(m) == m

RECURSIVE SortByKey(_)
\* The entries of m by ascending key.
SortByKey(m) ==
    IF m = <<>> THEN <<>> ELSE InsertSorted(Head(m), SortByKey(Tail(m)))

\* The raw value as it is written after "key=".
ValueString(v) == IF v.t = "str" THEN v.s ELSE <<>>

RECURSIVE JoinPairs(_)
JoinPairs(es) ==
    IF es = <<>> THEN <<>>
    ELSE LET pair == Head(es)[1] \o <<"=">> \o ValueString(Head(es)[2])
         IN  IF Len(es) = 1 THEN pair
             ELSE pair \o <<"&">> \o JoinPairs(Tail(es))

\* The canonicalizer without its exclusion step.
canonicalizeKeepAll(m) == JoinPairs(SortByKey(m))

\* The signable string of a mapping: drop, sort, join.
canonicalize(m) == JoinPairs(SortByKey(DropExcluded(m)))

\* ------------------------------------------------------- signer / verifier

K_sign == <<"s", "i", "g", "n">>

K_sign_type == <<"s", "i", "g", "n", "_", "t", "y", "p", "e">>

SignTypes == {"RSA", "RSA2"}

\* The sign type as the string a parameter carries.
SignTypeString(st) ==
    IF st = "RSA" THEN <<"R", "S", "A">> ELSE <<"R", "S", "A", "2">>

\* RSA -> SHA1, RSA2 -> SHA256; any other declared value implies no digest.
DigestOfString(chars) ==
    IF chars = <<"R", "S", "A">> THEN "SHA1"
    ELSE IF chars = <<"R", "S", "A", "2">> THEN "SHA256"
    ELSE "none"

DigestOf(st) == DigestOfString(SignTypeString(st))

\* The private keys of the model; each has one public key.
PrivateKeys == {"alipayPrivate", "otherPrivate"}

PublicOf(privateKey) ==
    IF privateKey = "alipayPrivate" THEN "alipayPublic" ELSE "otherPublic"

\* No public key at all: the verifier has no trust material.
NoKey == "noKey"

\* sign(params, privateKey, signType): the RSA signature, base64, over the
\* canonical string under the digest of signType.
sign(m, privateKey, signType) ==
    [t |-> "sig", key |-> privateKey, digest |-> DigestOf(signType),
     content |-> canonicalize(m)]

\* The digest verify uses, always the client's configured one.
verifyDigestConfigured(p, defaultSignType) == DigestOf(defaultSignType)

\* The digest verify uses: the one the payload's sign_type declares, the
\* client's configured default only if the payload has no sign_type.
verifyDigest(p, defaultSignType) ==
    IF HasKey(p, K_sign_type)
    THEN LET d == Get(p, K_sign_type)
         IN  IF IsStr(d) THEN DigestOfString(d.s) ELSE "none"
    ELSE DigestOf(defaultSignType)

\* The string verify checks the signature against, sign and sign_type kept.
verifyContentKeepSignFields(p) == canonicalize(p)

\* The string verify checks the signature against: sign and sign_type are
\* removed, the remainder is canonicalized.
verifyContent(p) == canonicalize(Without(p, {K_sign, K_sign_type}))

\* An RSA check that compares the key and the digest but not the content.
rsaVerifyIgnoreContent(sig, content, publicKey, digest) ==
    /\ sig.t = "sig"
    /\ PublicOf(sig.key) = publicKey
    /\ digest # "none"
    /\ sig.digest = digest

\* The RSA check of a signature value: false for a value that is no
\* signature, for another key, another digest or another content.
rsaVerify(sig, content, publicKey, digest) ==
    /\ sig.t = "sig"
    /\ PublicOf(sig.key) = publicKey
    /\ digest # "none"
    /\ sig.digest = digest
    /\ sig.content = content

\* verify(params, publicKey, signType) under a configured public key.
verify(p, publicKey, defaultSignType) ==
    LET sig == Get(p, K_sign)
    IN  /\ ~Excluded(sig)
        /\ rsaVerify(sig, verifyContent(p), publicKey,
                     verifyDigest(p, defaultSignType))

\* What a call of verify may do: with no trust material at all it rejects,
\* by returning false or by throwing; otherwise it returns its verdict.
verifyOutcomes(p, publicKey, defaultSignType) ==
    IF publicKey = NoKey THEN {"false", "throw"}
    ELSE IF verify(p, publicKey, defaultSignType) THEN {"true"}
    ELSE {"false"}

\* -------------------------------------------------------- key normalization

\* The width of a line of PEM armor.
PemColumns == 64

Newline == "\n"

W_BEGIN == <<"B", "E", "G", "I", "N">>

W_END == <<"E", "N", "D">>

Dashes == <<"-", "-", "-", "-", "-">>

\* The PEM label of each kind of key.
LabelOf(kind) ==
    IF kind = "private"
    THEN <<"R", "S", "A", " ", "P", "R", "I", "V", "A", "T", "E", " ",
           "K", "E", "Y">>
    ELSE <<"P", "U", "B", "L", "I", "C", " ", "K", "E", "Y">>

\* -----BEGIN <label>-----
PemHeader(kind) == Dashes \o W_BEGIN \o <<" ">> \o LabelOf(kind) \o Dashes

\* -----END <label>-----
PemFooter(kind) == Dashes \o W_END \o <<" ">> \o LabelOf(kind) \o Dashes

RECURSIVE WrapColumns(_)
\* The text cut into lines of PemColumns characters, the last one shorter.
WrapColumns(text) ==
    IF Len(text) <= PemColumns THEN text
    ELSE SubSeq(text, 1, PemColumns) \o <<Newline>>
         \o WrapColumns(SubSeq(text, PemColumns + 1, Len(text)))

\* A normalization that wraps whatever it is given.
normalizeAlwaysWrap(key, kind) ==
    PemHeader(kind) \o <<Newline>> \o WrapColumns(key) \o <<Newline>>
    \o PemFooter(kind)

\* Key normalization: a key without a BEGIN marker is bare base64 and is
\* wrapped into PEM armor; any other key is used as it is.
normalize(key, kind) ==
    IF Contains(key, W_BEGIN) THEN key
    ELSE PemHeader(kind) \o <<Newline>> \o WrapColumns(key) \o <<Newline>>
         \o PemFooter(kind)

\* ---------------------------------------------------- certificate utility

\* A certificate file is a sequence of units: a PEM certificate block (ASCII
\* text) or a stray byte.  A string is a sequence of the same blocks and of
\* stray characters (code points).
CertUnit(serial, alg, spki) ==
    [t |-> "cert", serial |-> serial, alg |-> alg, spki |-> spki]

ByteUnit(b) == [t |-> "byte", b |-> b]

CharUnit(c) == [t |-> "char", c |-> c]

Buffer(bytes) == [t |-> "buffer", bytes |-> bytes]

StringOf(chars) == [t |-> "string", chars |-> chars]

\* U+FFFD, what a UTF-8 decoder puts for a byte that is no UTF-8.
ReplacementChar == 65533

RECURSIVE decodeUtf8DropInvalid(_)
\* A decoder that skips the bytes that are no UTF-8.
decodeUtf8DropInvalid(bytes) ==
    IF bytes = <<>> THEN <<>>
    ELSE LET u == Head(bytes)
         IN  (IF u.t = "cert" THEN <<u>>
              ELSE IF u.b < 128 THEN <<CharUnit(u.b)>> ELSE <<>>)
             \o decodeUtf8DropInvalid(Tail(bytes))

RECURSIVE decodeUtf8(_)
\* buffer.toString() / readFileSync(path, 'utf-8')
decodeUtf8(bytes) ==
    IF bytes = <<>> THEN <<>>
    ELSE LET u == Head(bytes)
         IN  (IF u.t = "cert" THEN <<u>>
              ELSE IF u.b < 128 THEN <<CharUnit(u.b)>>
              ELSE <<CharUnit(ReplacementChar)>>)
             \o decodeUtf8(Tail(bytes))

RECURSIVE encodeUtf8(_)
\* Buffer.from(string)
encodeUtf8(chars) ==
    IF chars = <<>> THEN <<>>
    ELSE LET u == Head(chars)
         IN  (IF u.t = "cert" THEN <<u>>
              ELSE IF u.c < 128 THEN <<ByteUnit(u.c)>>
              ELSE <<ByteUnit(239), ByteUnit(191), ByteUnit(189)>>)
             \o encodeUtf8(Tail(chars))

\* Content is brought to one encoding before parsing.
toBuffer(content) ==
    IF content.t = "string" THEN encodeUtf8(content.chars) ELSE content.bytes

CertificateParseError == [ok |-> FALSE, error |-> "CertificateParseError"]

Ok(value) == [ok |-> TRUE, value |-> value]

\* The certificates of a PEM text; empty or malformed text fails.
parsePEMs(bytes) ==
    IF bytes = <<>> \/ \E i \in 1..Len(bytes) : bytes[i].t # "cert"
    THEN CertificateParseError
    ELSE Ok(bytes)

\* Hexadecimal digits in lower case.
LowerHex(c) ==
    CASE c = "A" -> "a" [] c = "B" -> "b" [] c = "C" -> "c" [] OTHER -> c

\* The serial number of one certificate, lower-cased.
certSN(cert) == [i \in 1..Len(cert.serial) |-> LowerHex(cert.serial[i])]

\* A signature algorithm of the RSA family is compatible with the chain.
Compatible(alg) == alg \in {"sha1WithRSA", "sha256WithRSA"}

\* Every entry of the bundle is retained.
retainedAll(certs, i) == TRUE

\* The i-th entry of a root bundle is retained: its signature algorithm is
\* compatible, and it is not a SHA1-signed entry superseded by a newer one.
retained(certs, i) ==
    /\ Compatible(certs[i].alg)
    /\ ~( /\ certs[i].alg = "sha1WithRSA"
          /\ \E j \in 1..Len(certs) : certs[j].alg = "sha256WithRSA" )

RECURSIVE joinRetained(_, _, _)
\* The serial numbers of the retained entries from the i-th on, joined
\* by '_'; `first` says that nothing was written yet.
joinRetained(certs, i, first) ==
    IF i > Len(certs) THEN <<>>
    ELSE IF ~retained(certs, i) THEN joinRetained(certs, i + 1, first)
    ELSE (IF first THEN <<>> ELSE <<"_">>) \o certSN(certs[i])
         \o joinRetained(certs, i + 1, FALSE)

\* getSN(content, isRoot)
getSN(content, isRoot) ==
    LET parsed == parsePEMs(toBuffer(content))
    IN  IF ~parsed.ok THEN parsed
        ELSE IF isRoot THEN Ok(joinRetained(parsed.value, 1, TRUE))
        ELSE Ok(certSN(parsed.value[1]))

\* loadPublicKey(content): the SPKI public key of the certificate, bare.
loadPublicKey(content) ==
    LET parsed == parsePEMs(toBuffer(content))
    IN  IF ~parsed.ok THEN parsed ELSE Ok(parsed.value[1].spki)

\* getSNFromPath(path, isRoot), the file holding `bytes`.
getSNFromPath(bytes, isRoot) == getSN(StringOf(decodeUtf8(bytes)), isRoot)

\* loadPublicKeyFromPath(path), the file holding `bytes`.
loadPublicKeyFromPath(bytes) == loadPublicKey(StringOf(decodeUtf8(bytes)))

\* ------------------------------------------------------------------ state

VARIABLES
    \* --- the signing subsystem, exercised on drawn inputs
    phase,         \* which operation was applied last
    params,        \* the parameter mapping M
    canon,         \* canonicalize's result for M, once computed
    payload,       \* the signed mapping: M, sign and (if declared) sign_type
    tamper,        \* the single value changed after signing, if any
    verdict,       \* what verify did with payload
    \* --- the gateway client of the process (lib/alipay.ts)
    alipayClient,  \* the module-level AlipaySdk instance, or NoClient
    \* --- the deployment
    variant,       \* which lib/alipay.ts and notify route: "mock" | "strict"
    env,           \* process.env's Alipay key variables
    driver,        \* the order store's driver: "memory" | "postgres"
    \* --- the demo application
    store,         \* the order store: order id -> record
    nextId,        \* the next fresh order id (randomUUID)
    co,            \* the createOrder call in progress
    nh,            \* the notify request in progress
    trades,        \* the orders the gateway has created a trade for
    constructed,   \* how many times new AlipaySdk(...) ran in this process
    \* --- the key and certificate utilities, exercised on drawn inputs
    nk,            \* a key string and what normalize made of it
    certFile,      \* the bytes of the certificate file at hand
    certLog,       \* the result of each utility call made so far
    certStable,    \* every repeated call returned what it returned before
    \* --- the order query, response extraction and the checkout form
    qh,            \* GET /api/orders/[orderId]: the orders, a request, its answer
    ex,            \* a gateway response body and what extraction made of it
    cf             \* CheckoutForm: its state, its requests in flight

signVars == <<phase, params, canon, payload, tamper, verdict>>

sysVars == <<variant, env, driver, store, nextId, co, nh, trades, constructed>>

utilVars == <<nk, certFile, certLog, certStable>>

sideVars == <<qh, ex, cf>>

vars == <<phase, params, canon, payload, tamper, verdict, alipayClient,
          variant, env, driver, store, nextId, co, nh, trades, constructed,
          nk, certFile, certLog, certStable, qh, ex, cf>>

NoClient == [built |-> FALSE]

\* new AlipaySdk(config): the configuration is fixed at construction.
AlipaySdk(privateKey, alipayPublicKey, signType) ==
    [built |-> TRUE, privateKey |-> privateKey,
     alipayPublicKey |-> alipayPublicKey, signType |-> signType]

NkIdle ==
    [pc |-> "idle", kind |-> "private", input |-> <<>>, once |-> <<>>,
     twice |-> <<>>]

\* The key and certificate utilities at rest.
UtilAtRest ==
    /\ nk = NkIdle
    /\ certFile = <<>>
    /\ certLog = <<>>
    /\ certStable = TRUE

QhIdle == [pc |-> "idle"]

ExIdle == [pc |-> "idle"]

CfIdle == [pc |-> "idle"]

\* The order query, the extraction and the checkout form at rest.
SideAtRest ==
    /\ qh = QhIdle
    /\ ex = ExIdle
    /\ cf = CfIdle

\* ------------------------------------------ the signing subsystem's inputs

K_k == <<"k">>

K_Zk == <<"Z", "k">>

ParamKeys == {K_k, K_Zk, K_sign, K_sign_type}

ParamValues == {Null, Str(<<>>), Str(<<"v">>)}

TamperValues == ParamValues \cup {Undefined, Str(<<"w">>)}

KeySeqs(n) ==
    {ks \in [1..n -> ParamKeys] : \A i, j \in 1..n : ks[i] = ks[j] => i = j}

\* Every mapping of at most MaxParams entries, in every insertion order.
Mappings ==
    UNION {{[i \in 1..n |-> <<ks[i], vs[i]>>] :
                ks \in KeySeqs(n), vs \in [1..n -> ParamValues]} :
           n \in 0..MaxParams}

NoTamper == [changed |-> FALSE]

NoVerdict == "none"

\* The demo application at rest, while the signing subsystem is exercised.
SysAtRest ==
    /\ variant = "strict"
    /\ env = [appId |-> "set", privateKey |-> "set", publicKey |-> "set",
              publicCert |-> "unset"]
    /\ driver = "memory"
    /\ store = <<>>
    /\ nextId = 1
    /\ co = [pc |-> "idle"]
    /\ nh = [pc |-> "idle"]
    /\ trades = {}
    /\ constructed = 0

SignInit ==
    /\ SysAtRest
    /\ UtilAtRest
    /\ SideAtRest
    /\ phase = "input"
    /\ params \in Mappings
    /\ canon = Undefined
    /\ payload = <<>>
    /\ tamper = NoTamper
    /\ verdict = NoVerdict
    /\ \E st \in SignTypes :
          alipayClient = AlipaySdk("appPrivate", "alipayPublic", st)

\* canonicalize(M) is computed.
Canonicalize ==
    /\ phase = "input"
    /\ canon' = Str(canonicalize(params))
    /\ phase' = "canon"
    /\ UNCHANGED <<params, payload, tamper, verdict, alipayClient, sysVars,
                   utilVars, sideVars>>

\* The same mapping with two neighbouring keys inserted in the other order.
Shuffle(i) ==
    /\ phase = "canon"
    /\ i \in 1..(Len(params) - 1)
    /\ params' = [params EXCEPT ![i] = params[i + 1], ![i + 1] = params[i]]
    /\ UNCHANGED <<phase, canon, payload, tamper, verdict, alipayClient, sysVars,
                   utilVars, sideVars>>

\* An outbound parameter set that keeps a sign_type the caller supplied.
outboundParamsCallerType(client, m) ==
    IF HasKey(m, K_sign_type) THEN m
    ELSE Put(m, K_sign_type, Str(SignTypeString(client.signType)))

\* The parameter set the client signs for an outbound request: sign_type is
\* the client's own, whatever the caller's parameters say.
outboundParams(client, m) ==
    Put(Without(m, {K_sign}), K_sign_type, Str(SignTypeString(client.signType)))

\* The request the client transmits: the parameter set plus sign.
signedRequest(client, m) ==
    LET ps == outboundParams(client, m)
        st == Get(ps, K_sign_type)
    IN  Put(ps, K_sign,
            [t |-> "sig", key |-> client.privateKey,
             digest |-> IF IsStr(st) THEN DigestOfString(st.s) ELSE "none",
             content |-> canonicalize(ps)])

\* The client signs M for an outbound request.
SignOutbound ==
    /\ phase = "input"
    /\ payload' = signedRequest(alipayClient, params)
    /\ phase' = "sent"
    /\ UNCHANGED <<params, canon, tamper, verdict, alipayClient, sysVars,
                   utilVars, sideVars>>

\* What a payload may declare as its sign_type: nothing, or a sign type.
Declarations == {"absent"} \cup SignTypes

\* {...M, sign: sig, sign_type: declared}, or {...M, sign: sig} for a payload
\* that declares no sign type.
signedPayload(m, sig, declared) ==
    IF declared = "absent" THEN Put(m, K_sign, sig)
    ELSE Put(Put(m, K_sign, sig), K_sign_type, Str(SignTypeString(declared)))

\* M is signed under a private key and a sign type.
SignPayload(privateKey, signType, declared) ==
    /\ phase = "input"
    /\ privateKey # "alipayPrivate" => declared = signType
    /\ payload' = signedPayload(params, sign(params, privateKey, signType),
                                declared)
    /\ phase' = "signed"
    /\ tamper' = [changed |-> FALSE, signType |-> signType, declared |-> declared]
    /\ UNCHANGED <<params, canon, verdict, alipayClient, sysVars,
                   utilVars, sideVars>>

\* One value of M is changed after signing; the signature stays.
Tamper(i, v) ==
    /\ phase = "signed"
    /\ i \in 1..Len(params)
    /\ v # params[i][2]
    /\ params' = [params EXCEPT ![i] = <<params[i][1], v>>]
    /\ payload' = signedPayload(params', Get(payload, K_sign), tamper.declared)
    /\ tamper' = [changed |-> TRUE, signType |-> tamper.signType,
                  declared |-> tamper.declared,
                  key |-> params[i][1], old |-> params[i][2], new |-> v]
    /\ phase' = "tampered"
    /\ UNCHANGED <<canon, verdict, alipayClient, sysVars,
                   utilVars, sideVars>>

\* The client verifies the payload against its configured public key.
VerifyInbound ==
    /\ phase \in {"signed", "tampered"}
    /\ verdict' \in verifyOutcomes(payload, alipayClient.alipayPublicKey,
                                    alipayClient.signType)
    /\ phase' = "verified"
    /\ UNCHANGED <<params, canon, payload, tamper, alipayClient, sysVars,
                   utilVars, sideVars>>

SignNext ==
    \/ Canonicalize
    \/ \E i \in 1..MaxParams : Shuffle(i)
    \/ SignOutbound
    \/ \E k \in PrivateKeys, st \in SignTypes, d \in Declarations :
          SignPayload(k, st, d)
    \/ \E i \in 1..MaxParams, v \in TamperValues : Tamper(i, v)
    \/ VerifyInbound

SpecSign == SignInit /\ [][SignNext]_vars

\* ------------------------------------------------- configuration (env)

\* The values a variable of process.env takes in the model: "unset" (unset
\* or empty), "literal" (the string 'undefined' or 'null'), "set".
EnvFull ==
    [appId |-> "set", privateKey |-> "set", publicKey |-> "set",
     publicCert |-> "unset"]

EnvCertOnly ==
    [appId |-> "set", privateKey |-> "set", publicKey |-> "unset",
     publicCert |-> "set"]

EnvLiteral ==
    [appId |-> "set", privateKey |-> "set", publicKey |-> "literal",
     publicCert |-> "unset"]

EnvNone ==
    [appId |-> "unset", privateKey |-> "unset", publicKey |-> "unset",
     publicCert |-> "unset"]

EnvCases == {EnvFull, EnvCertOnly, EnvLiteral, EnvNone}

\* JavaScript truthiness of process.env.X: any non-empty string.
Truthy(x) == x # "unset"

\* A reading of process.env.X that takes every non-empty string for a value.
readEnvRaw(x) == x

\* readEnv: unset, empty, 'undefined' and 'null' all read as undefined.
readEnv(x) == IF x \in {"unset", "literal"} THEN "unset" ELSE x

\* The module constant hasKeyMaterial of the mock variant.
hasKeyMaterial(e) ==
    /\ Truthy(e.appId)
    /\ Truthy(e.privateKey)
    /\ (Truthy(e.publicKey) \/ Truthy(e.publicCert))

\* hasAlipayKeyMaterial() of the strict variant.
hasAlipayKeyMaterial(e) ==
    /\ readEnv(e.appId) # "unset"
    /\ readEnv(e.privateKey) # "unset"
    /\ (readEnv(e.publicKey) # "unset" \/ readEnv(e.publicCert) # "unset")

\* collectMissingKeyParts() of the strict variant.
collectMissingKeyParts(e) ==
    (IF readEnv(e.appId) = "unset" THEN {"ALIPAY_APP_ID"} ELSE {})
    \cup (IF readEnv(e.privateKey) = "unset" THEN {"ALIPAY_PRIVATE_KEY"} ELSE {})
    \cup (IF readEnv(e.publicKey) = "unset" /\ readEnv(e.publicCert) = "unset"
          THEN {"ALIPAY_ALIPAY_PUBLIC_KEY or ALIPAY_ALIPAY_PUBLIC_CERT_PATH"}
          ELSE {})

\* isMockMode() (orders.ts reads it after createPreOrder returned).
isMockMode(e) == ~hasKeyMaterial(e)

\* The public key an AlipaySdk built from the environment verifies with:
\* the configured key, or the key of the configured certificate; a value
\* that is no key (the string 'undefined') is no trust material.
ConfiguredPublicKey(e) ==
    IF readEnv(e.publicKey) = "set" \/ readEnv(e.publicCert) = "set"
    THEN "alipayPublic" ELSE NoKey

\* The sign type of an AlipaySdk built without a signType option.
DefaultSignType == "RSA2"

\* new AlipaySdk({appId, privateKey, alipayPublicKey, ...}) in getClient.
NewClient(e) == AlipaySdk("appPrivate", ConfiguredPublicKey(e), DefaultSignType)

\* A getClient that builds a client on every call.
getClientAlwaysNew(v, e, client) ==
    IF v = "mock"
    THEN IF ~hasKeyMaterial(e)
         THEN [kind |-> "null", client |-> client, constructed |-> 0]
         ELSE [kind |-> "ok", client |-> NewClient(e), constructed |-> 1]
    ELSE IF ~hasAlipayKeyMaterial(e)
         THEN [kind |-> "throw", client |-> client, constructed |-> 0]
         ELSE [kind |-> "ok", client |-> NewClient(e), constructed |-> 1]

\* getClient(): [kind |-> "null" | "throw" | "ok", client |-> the module's
\* alipayClient afterwards, constructed |-> the clients it built].
getClient(v, e, client) ==
    IF v = "mock"
    THEN IF ~hasKeyMaterial(e)
         THEN [kind |-> "null", client |-> client, constructed |-> 0]
         ELSE IF client.built
         THEN [kind |-> "ok", client |-> client, constructed |-> 0]
         ELSE [kind |-> "ok", client |-> NewClient(e), constructed |-> 1]
    ELSE IF ~hasAlipayKeyMaterial(e)
         THEN [kind |-> "throw", client |-> client, constructed |-> 0]
         ELSE IF client.built
         THEN [kind |-> "ok", client |-> client, constructed |-> 0]
         ELSE [kind |-> "ok", client |-> NewClient(e), constructed |-> 1]

\* ---------------------------------------------------------- order store

OrderIds == 1..MaxOrders

NoOrder == [exists |-> FALSE]

\* A token of the model as a string value.
Tok(x) == Str(<<x>>)

OrderIdString(o) == Tok(ToString(o))

\* An object value (a gateway payload) as a value of the model.
Obj(m) == [t |-> "obj", m |-> m]

\* a ?? b
Coalesce(a, b) == IF a.t \in {"undefined", "null"} THEN b ELSE a

\* createInMemoryDriver().update: {...current, ...updates}; a key of updates
\* replaces the stored field even when its value is undefined.
inMemoryUpdate(current, updates) ==
    [exists |-> TRUE, id |-> current.id,
     status |-> updates.status, tradeNo |-> updates.tradeNo,
     qrCode |-> updates.qrCode, gatewayPayload |-> updates.gatewayPayload]

\* createPostgresDriver().update: COALESCE(new, stored) for each column.
postgresUpdate(current, updates) ==
    [exists |-> TRUE, id |-> current.id,
     status |-> updates.status,
     tradeNo |-> Coalesce(updates.tradeNo, current.tradeNo),
     qrCode |-> Coalesce(updates.qrCode, current.qrCode),
     gatewayPayload |-> Coalesce(updates.gatewayPayload, current.gatewayPayload)]

\* updateOrder(id, updates) on the store: null (no change) for an unknown id.
updateOrder(st, d, id, updates) ==
    IF ~st[id].exists THEN st
    ELSE [st EXCEPT ![id] = IF d = "memory" THEN inMemoryUpdate(st[id], updates)
                            ELSE postgresUpdate(st[id], updates)]

\* markOrderStatus writing 'pending' over an order that is paid.
markOrderStatusReset(st, d, id, status, options) ==
    updateOrder(st, d, id,
                [status |-> IF st[id].exists /\ st[id].status = "paid"
                            THEN "pending" ELSE status,
                 gatewayPayload |-> options.gatewayPayload,
                 tradeNo |-> options.tradeNo, qrCode |-> options.qrCode])

\* markOrderStatus(orderId, status, options): every option is passed on,
\* supplied or not.
markOrderStatus(st, d, id, status, options) ==
    updateOrder(st, d, id,
                [status |-> status, gatewayPayload |-> options.gatewayPayload,
                 tradeNo |-> options.tradeNo, qrCode |-> options.qrCode])

\* -------------------------------------------------------- notifications

K_tradeNo == <<"t", "r", "a", "d", "e", "N", "o">>

K_qrCode == <<"q", "r", "C", "o", "d", "e">>

K_code == <<"c", "o", "d", "e">>

K_subCode == <<"s", "u", "b", "C", "o", "d", "e">>

K_sub_code == <<"s", "u", "b", "_", "c", "o", "d", "e">>

K_message == <<"m", "e", "s", "s", "a", "g", "e">>

K_msg == <<"m", "s", "g">>

K_sub_msg == <<"s", "u", "b", "_", "m", "s", "g">>

K_qr_code == <<"q", "r", "_", "c", "o", "d", "e">>

K_response == <<"r", "e", "s", "p", "o", "n", "s", "e">>

K_out_trade_no == <<"o", "u", "t", "_", "t", "r", "a", "d", "e", "_", "n", "o">>

K_trade_no == <<"t", "r", "a", "d", "e", "_", "n", "o">>

K_trade_status == <<"t", "r", "a", "d", "e", "_", "s", "t", "a", "t", "u", "s">>

\* The fields of a notification about order o: [status, tradeNo] say which
\* optional fields it carries.
NotifyFields(o, shape) ==
    LET base == <<<<K_out_trade_no, OrderIdString(o)>>>>
        withNo == IF shape.tradeNo
                  THEN Append(base, <<K_trade_no, Tok("T")>>) ELSE base
    IN  IF shape.status = "absent" THEN withNo
        ELSE Append(withNo, <<K_trade_status, Tok(shape.status)>>)

\* What the gateway reports.
GenuineShapes ==
    {[status |-> "TRADE_SUCCESS", tradeNo |-> TRUE],
     [status |-> "TRADE_FINISHED", tradeNo |-> FALSE],
     [status |-> "WAIT_BUYER_PAY", tradeNo |-> TRUE],
     [status |-> "absent", tradeNo |-> TRUE]}

PaidShape == [status |-> "TRADE_SUCCESS", tradeNo |-> TRUE]

WaitShape == [status |-> "WAIT_BUYER_PAY", tradeNo |-> TRUE]

\* A notification of the gateway: signed by Alipay's private key, RSA2.
GenuineNotification(o, shape) ==
    signedPayload(NotifyFields(o, shape),
                  sign(NotifyFields(o, shape), "alipayPrivate", "RSA2"), "RSA2")

\* What anyone else can post about order o: a payment report signed with
\* another key, unsigned, with a sign that is no signature, or carrying the
\* signature of a genuine notification that reports no payment.
ForgedNotifications(o) ==
    { signedPayload(NotifyFields(o, PaidShape),
                    sign(NotifyFields(o, PaidShape), "otherPrivate", "RSA2"),
                    "RSA2"),
      NotifyFields(o, PaidShape),
      signedPayload(NotifyFields(o, PaidShape), Tok("not-a-signature"), "RSA2"),
      signedPayload(NotifyFields(o, PaidShape),
                    sign(NotifyFields(o, WaitShape), "alipayPrivate", "RSA2"),
                    "RSA2") }

\* An unsigned body without out_trade_no.
EmptyNotification == <<<<K_trade_status, Tok("TRADE_SUCCESS")>>>>

\* The notifications the gateway may send about each order.
GenuineNotifications ==
    [o \in OrderIds |-> {GenuineNotification(o, sh) : sh \in GenuineShapes}]

\* The bodies anyone may post, whatever the gateway did.
ForeignNotifications ==
    UNION {ForgedNotifications(o) : o \in OrderIds} \cup {EmptyNotification}

\* Every body the notify endpoint may receive: the gateway notifies about
\* the trades it has.
NotifyPayloads ==
    UNION {GenuineNotifications[o] : o \in trades} \cup ForeignNotifications

\* getNotifyVerifier().verify(payload): what the call may do.  "init" is
\* getNotifyVerifier itself throwing.
notifyVerifyOutcomes(v, e, client, p) ==
    LET got == getClient(v, e, client)
    IN  IF got.kind = "throw" THEN {"init"}
        ELSE IF got.kind = "null" THEN {"true"}
        ELSE verifyOutcomes(p, got.client.alipayPublicKey, got.client.signType)

\* tradeStatus === 'TRADE_SUCCESS' only.
isPaidStatusSuccessOnly(tradeStatus) == tradeStatus = Tok("TRADE_SUCCESS")

\* tradeStatus === 'TRADE_SUCCESS' || tradeStatus === 'TRADE_FINISHED'
isPaidStatus(tradeStatus) ==
    tradeStatus \in {Tok("TRADE_SUCCESS"), Tok("TRADE_FINISHED")}

\* The notify route without its `if (!verified)` return.
notifyAfterVerifyUnchecked(outcome, p) ==
    IF outcome \in {"init", "throw"} THEN [pc |-> "done", response |-> "500"]
    ELSE IF Falsy(Get(p, K_out_trade_no))
    THEN [pc |-> "done", response |-> "400"]
    ELSE [pc |-> "getOrder", response |-> "none"]

\* The notify route from the verifier's answer to the order lookup: 500 when
\* the verifier cannot be had (or verify throws), 400 for an unverified
\* payload and for one without out_trade_no.
notifyAfterVerify(outcome, p) ==
    IF outcome \in {"init", "throw"} THEN [pc |-> "done", response |-> "500"]
    ELSE IF outcome # "true" THEN [pc |-> "done", response |-> "400"]
    ELSE IF Falsy(Get(p, K_out_trade_no))
    THEN [pc |-> "done", response |-> "400"]
    ELSE [pc |-> "getOrder", response |-> "none"]

\* The order id a payload's out_trade_no names (0: none of the model's).
OrderOf(p) ==
    LET v == Get(p, K_out_trade_no)
    IN  IF \E o \in OrderIds : OrderIdString(o) = v
        THEN CHOOSE o \in OrderIds : OrderIdString(o) = v
        ELSE 0

NhIdle ==
    [pc |-> "idle", payload |-> <<>>, verified |-> "none", found |-> FALSE,
     order |-> NoOrder, response |-> "none", client |-> NoClient]

\* POST /api/alipay/notify, up to `await getOrder(outTradeNo)`.
NotifyReceive(p) ==
    /\ nh.pc = "idle"
    /\ p \in NotifyPayloads
    /\ \E outcome \in notifyVerifyOutcomes(variant, env, alipayClient, p) :
         LET next == notifyAfterVerify(outcome, p)
         IN  nh' = [pc |-> next.pc, payload |-> p, verified |-> outcome,
                    found |-> FALSE, order |-> NoOrder,
                    response |-> next.response,
                    client |-> getClient(variant, env, alipayClient).client]
    /\ alipayClient' = getClient(variant, env, alipayClient).client
    /\ constructed' = constructed
                       + getClient(variant, env, alipayClient).constructed
    /\ UNCHANGED <<variant, env, driver, store, nextId, co, trades, signVars,
                   utilVars, sideVars>>

\* The options with the trade number left out for an order already paid.
notifyMarkOptionsOnce(p, order) ==
    [gatewayPayload |-> Obj(p),
     tradeNo |-> IF order.status = "paid" THEN Undefined
                 ELSE Coalesce(Get(p, K_trade_no), order.tradeNo),
     qrCode |-> Undefined]

\* The options of the route's markOrderStatus call.
notifyMarkOptions(p, order) ==
    [gatewayPayload |-> Obj(p),
     tradeNo |-> Coalesce(Get(p, K_trade_no), order.tradeNo),
     qrCode |-> Undefined]

\* getOrder resolves: 404 for no order, 'success' at once for a status that
\* is no payment; otherwise markOrderStatus is called, which the in-memory
\* driver performs within the call and Postgres on its own time.
NotifyGetOrder ==
    /\ nh.pc = "getOrder"
    /\ LET o == OrderOf(nh.payload)
           order == IF o = 0 THEN NoOrder ELSE store[o]
       IN  IF ~order.exists
           THEN /\ nh' = [nh EXCEPT !.pc = "done", !.response = "404"]
                /\ store' = store
           ELSE IF ~isPaidStatus(Get(nh.payload, K_trade_status))
           THEN /\ nh' = [nh EXCEPT !.pc = "done", !.found = TRUE,
                                    !.order = order, !.response = "success"]
                /\ store' = store
           ELSE IF driver = "memory"
           THEN /\ nh' = [nh EXCEPT !.pc = "done", !.found = TRUE,
                                    !.order = order, !.response = "success"]
                /\ store' = markOrderStatus(store, driver, o, "paid",
                                            notifyMarkOptions(nh.payload, order))
           ELSE /\ nh' = [nh EXCEPT !.pc = "mark", !.found = TRUE,
                                    !.order = order]
                /\ store' = store
    /\ UNCHANGED <<constructed, variant, env, driver, nextId, co, trades, alipayClient,
                   signVars, utilVars, sideVars>>

\* Postgres runs the UPDATE of markOrderStatus; the route answers 'success'.
NotifyMark ==
    /\ nh.pc = "mark"
    /\ store' = markOrderStatus(store, driver, nh.order.id, "paid",
                                notifyMarkOptions(nh.payload, nh.order))
    /\ nh' = [nh EXCEPT !.pc = "done", !.response = "success"]
    /\ UNCHANGED <<constructed, variant, env, driver, nextId, co, trades, alipayClient,
                   signVars, utilVars, sideVars>>

\* The response is sent; the endpoint takes the next request.
NotifyRespond ==
    /\ nh.pc = "done"
    /\ nh' = NhIdle
    /\ UNCHANGED <<constructed, variant, env, driver, store, nextId, co, trades,
                   alipayClient, signVars, utilVars, sideVars>>

\* ------------------------------------------------------------ createOrder

NoError == [name |-> "none"]

\* new GatewayError(message, debugLog); `missing` are the variables a
\* configuration message names.
GatewayError(message, debugLog, missing) ==
    [name |-> "GatewayError", message |-> message, debugLog |-> debugLog,
     missing |-> missing]

\* What the gateway (or the network) does with a precreate request: the
\* call resolves with a response or rejects with an error.
Response(httpStatus, traceId, data) ==
    [kind |-> "response", httpStatus |-> httpStatus, traceId |-> traceId,
     data |-> data, error |-> Undefined]

Thrown(message, traceId, responseHttpStatus, code) ==
    [kind |-> "throw", httpStatus |-> Undefined, traceId |-> Undefined,
     data |-> <<>>,
     error |-> [t |-> "error", message |-> message, traceId |-> traceId,
                responseHttpStatus |-> responseHttpStatus, code |-> code]]

\* code 10000 with a qr code and a trade number.
AnswerOk ==
    Response(Tok("200"), Tok("t1"),
             <<<<K_code, Tok("10000")>>, <<K_qr_code, Tok("qr")>>,
               <<K_trade_no, Tok("T")>>>>)

\* Malformed success: the qr code is the empty string.
AnswerEmptyQr ==
    Response(Tok("200"), Tok("t4"),
             <<<<K_code, Tok("10000")>>, <<K_qr_code, Str(<<>>)>>,
               <<K_trade_no, Tok("T")>>>>)

\* A business failure without a qr code, in the gateway's envelope.
AnswerBusinessFailure ==
    Response(Tok("200"), Undefined,
             <<<<K_response,
                 Obj(<<<<K_code, Tok("40004")>>,
                       <<K_sub_code, Tok("ACQ.INVALID")>>,
                       <<K_sub_msg, Tok("insufficient balance")>>>>)>>>>)

\* A business failure code in a response that carries a qr code and no
\* trade number.
AnswerFailureWithQr ==
    Response(Tok("200"), Tok("t6"),
             <<<<K_code, Tok("40004")>>,
               <<K_sub_msg, Tok("insufficient balance")>>,
               <<K_qr_code, Tok("qr")>>>>)

\* The network fails.
AnswerNetworkError == Thrown(Tok("socket hang up"), Undefined, Undefined, Undefined)

\* The SDK rejects with an error that carries the response's diagnostics.
AnswerHttpError == Thrown(Tok("HTTP 500"), Tok("t8"), Tok("500"), Tok("E500"))

GatewayAnswers ==
    {AnswerOk, AnswerEmptyQr, AnswerBusinessFailure, AnswerFailureWithQr,
     AnswerNetworkError, AnswerHttpError}

\* The objects nested directly in a record, in the order of its entries.
NestedObjects(record) ==
    LET idx == {i \in 1..Len(record) : record[i][2].t = "obj"}
        RECURSIVE from(_)
        from(i) == IF i > Len(record) THEN <<>>
                   ELSE (IF i \in idx THEN <<record[i][2].m>> ELSE <<>>)
                        \o from(i + 1)
    IN  from(1)

RECURSIVE collectObjectGraphDepthFirst(_)
\* A traversal that visits the objects nested in a record before the rest
\* of the queue.
collectObjectGraphDepthFirst(queue) ==
    IF queue = <<>> THEN <<>>
    ELSE <<Head(queue)>>
         \o collectObjectGraphDepthFirst(NestedObjects(Head(queue))
                                         \o Tail(queue))

RECURSIVE collectObjectGraph(_)
\* collectObjectGraph(root): the records of the payload, breadth first;
\* the argument is the queue.
collectObjectGraph(queue) ==
    IF queue = <<>> THEN <<>>
    ELSE <<Head(queue)>>
         \o collectObjectGraph(Tail(queue) \o NestedObjects(Head(queue)))

RECURSIVE pickInRecord(_, _)
\* The first of the keys that holds a non-empty string in the record.
pickInRecord(record, keys) ==
    IF keys = <<>> THEN Undefined
    ELSE LET value == Get(record, Head(keys))
         IN  IF IsStr(value) /\ Len(value.s) > 0 THEN value
             ELSE pickInRecord(record, Tail(keys))

RECURSIVE pickFirstString(_, _)
pickFirstString(records, keys) ==
    IF records = <<>> THEN Undefined
    ELSE LET value == pickInRecord(Head(records), keys)
         IN  IF value # Undefined THEN value
             ELSE pickFirstString(Tail(records), keys)

extractResponseFields(data) ==
    LET graph == collectObjectGraph(<<data>>)
    IN  [tradeNo |-> pickFirstString(graph, <<K_tradeNo, K_trade_no>>),
         qrCode |-> pickFirstString(graph, <<K_qrCode, K_qr_code>>),
         errorCode |-> pickFirstString(graph, <<K_code, K_subCode, K_sub_code>>),
         errorMessage |-> pickFirstString(graph, <<K_message, K_msg, K_sub_msg>>)]

\* type AttemptMeta
AttemptMeta(stage, httpStatus, traceId, errorCode, errorMessage) ==
    [stage |-> Tok(stage), httpStatus |-> httpStatus, traceId |-> traceId,
     errorCode |-> errorCode, errorMessage |-> errorMessage]

MetaFields == {"stage", "httpStatus", "traceId", "errorCode", "errorMessage"}

\* The diagnostics a meta carries: <<stage, field, value>> for each field
\* that has a value.
DiagItems(meta) ==
    {<<meta.stage, f, meta[f]>> : f \in {g \in MetaFields : ~Falsy(meta[g])}}

\* collectErrorMeta(error, stage)
collectErrorMeta(error, stage) ==
    AttemptMeta(stage, error.responseHttpStatus, error.traceId, error.code,
                error.message)

\* serializeError(error): message and stack, as the log keeps them.
serializeError(error, stage) ==
    {<<Tok(stage), "stage", Tok(stage)>>,
     <<Tok(stage), "errorMessage", error.message>>}

\* describeFailure(meta): the details the message is joined from.
describeFailure(meta) == DiagItems(meta)

\* The attempt takes the response for a pre-order on its trade number.
attemptSucceedsOnTradeNo(v, fields) == ~Falsy(fields.tradeNo)

\* What makes a response a pre-order: a qr code (the mock variant also
\* wants a trade number).
attemptSucceeds(v, fields) ==
    IF v = "mock" THEN ~Falsy(fields.qrCode) /\ ~Falsy(fields.tradeNo)
    ELSE ~Falsy(fields.qrCode)

\* One precreate attempt against `answer`: attemptV3Precreate (stage "v3":
\* response.data with its metadata), attemptV2Precreate (stage "v2": the
\* response alone), and the single attempt of the mock variant.
\* [success, value, meta, logged].
attemptPrecreate(v, stage, answer, outTradeNo) ==
    IF answer.kind = "throw"
    THEN [success |-> FALSE, value |-> Undefined,
          meta |-> collectErrorMeta(answer.error, stage),
          logged |-> serializeError(answer.error, stage)]
    ELSE LET fields == extractResponseFields(answer.data)
             meta == AttemptMeta(stage,
                        IF stage = "v3" THEN answer.httpStatus ELSE Undefined,
                        IF stage = "v3" THEN answer.traceId ELSE Undefined,
                        fields.errorCode, fields.errorMessage)
         IN  [success |-> attemptSucceeds(v, fields),
              value |-> [tradeNo |-> Coalesce(fields.tradeNo, outTradeNo),
                         qrCode |-> fields.qrCode,
                         payload |-> Obj(answer.data)],
              meta |-> meta,
              logged |-> DiagItems(meta)]

\* The orchestration goes to gateway.do whatever the REST attempt brought.
nextStageAlwaysFallback(v, stage, success) ==
    IF v = "strict" /\ stage = "v3" THEN "v2"
    ELSE IF success THEN "save" ELSE "failed"

\* After a failed attempt the orchestration tries gateway.do again.
nextStageRetry(v, stage, success) ==
    IF success THEN "save" ELSE IF v = "strict" THEN "v2" ELSE "failed"

\* Where createPreOrder goes after an attempt: to the caller with the
\* result, from a failed V3 attempt to gateway.do (strict variant), or to
\* the caller with a GatewayError.
nextStage(v, stage, success) ==
    IF success THEN "save"
    ELSE IF v = "strict" /\ stage = "v3" THEN "v2"
    ELSE "failed"

\* The GatewayError of createPreOrder after its attempts failed.  The strict
\* variant: describeFailure(v2Result.meta ?? v3Result.meta).  The mock
\* variant: a fixed message after a rejected call, friendlyErrorMessage (no
\* stage, the HTTP status unless it is 200) after a response.
precreateError(v, attempts, log, answer) ==
    LET meta == attempts[Len(attempts)]
    IN  IF v = "strict" THEN GatewayError(describeFailure(meta), log, {})
        ELSE IF answer.kind = "throw" THEN GatewayError({}, log, {})
        ELSE GatewayError({d \in DiagItems(meta) :
                              /\ d[2] # "stage"
                              /\ ~(d[2] = "httpStatus" /\ d[3] = Tok("200"))},
                          log, {})

\* No request was answered yet.
NoAnswer == [kind |-> "none"]

CoIdle ==
    [pc |-> "idle", order |-> NoOrder, gateway |-> "none", stages |-> <<>>,
     attempts |-> <<>>, log |-> {}, error |-> NoError, client |-> NoClient,
     answer |-> NoAnswer]

\* An order saved as pending whatever the mode.
orderToSavePending(e, o, preOrder) ==
    [exists |-> TRUE, id |-> o, status |-> "pending",
     tradeNo |-> preOrder.tradeNo, qrCode |-> preOrder.qrCode,
     gatewayPayload |-> preOrder.payload]

\* The order createOrder saves once createPreOrder returned preOrder.
orderToSave(e, o, preOrder) ==
    [exists |-> TRUE, id |-> o,
     status |-> IF isMockMode(e) THEN "paid" ELSE "pending",
     tradeNo |-> preOrder.tradeNo, qrCode |-> preOrder.qrCode,
     gatewayPayload |-> preOrder.payload]

\* createPreOrder's result in mock mode.
mockPreOrder(o) ==
    [tradeNo |-> Tok("MOCK"), qrCode |-> Tok("mock-qr"),
     payload |-> Obj(<<<<<<"qrContent">>, Tok("MOCK_PAYMENT")>>>>)]

\* The stages of one request through the client: the parameters are built
\* and signed and the request is transmitted; a response is unwrapped and
\* the result extracted from it.
RequestStages == <<"BUILD_PARAMS", "SIGN", "TRANSMIT">>

ResponseStages == <<"UNWRAP_ENVELOPE", "EXTRACT_RESULT">>

\* An order that is saved as pending before the pre-order is asked for.
storeBeforePreOrderSaved(st, o) ==
    [st EXCEPT ![o] = [exists |-> TRUE, id |-> o, status |-> "pending",
                       tradeNo |-> Undefined, qrCode |-> Undefined,
                       gatewayPayload |-> Undefined]]

\* The store when createOrder awaits createPreOrder: the order record was
\* built in memory and nothing was written.
storeBeforePreOrder(st, o) == st

\* createOrder up to the first transmit of createPreOrder: the mock variant
\* returns a simulated pre-order in mock mode, the strict variant throws
\* for a missing configuration.
CreateOrderStart ==
    /\ co.pc = "idle"
    /\ nextId <= MaxOrders
    /\ nextId' = nextId + 1
    /\ IF variant = "mock" /\ isMockMode(env)
       THEN /\ co' = [CoIdle EXCEPT !.pc = "save", !.gateway = "mock",
                        !.order = orderToSave(env, nextId, mockPreOrder(nextId))]
            /\ UNCHANGED <<alipayClient, constructed>>
       ELSE IF variant = "strict" /\ collectMissingKeyParts(env) # {}
       THEN /\ co' = [CoIdle EXCEPT !.pc = "failed",
                        !.error = GatewayError({}, {},
                                               collectMissingKeyParts(env))]
            /\ UNCHANGED <<alipayClient, constructed>>
       ELSE LET got == getClient(variant, env, alipayClient)
            IN  /\ alipayClient' = got.client
                /\ constructed' = constructed + got.constructed
                /\ co' = IF got.kind = "ok"
                         THEN [CoIdle EXCEPT !.pc = "v3", !.gateway = "alipay",
                                 !.order = [exists |-> FALSE, id |-> nextId],
                                 !.stages = RequestStages,
                                 !.client = got.client]
                         ELSE [CoIdle EXCEPT !.pc = "failed",
                                 !.error = IF got.kind = "throw"
                                           THEN GatewayError({}, {},
                                                  collectMissingKeyParts(env))
                                           ELSE [name |-> "Error"]]
    /\ store' = storeBeforePreOrder(store, nextId)
    /\ UNCHANGED <<variant, env, driver, nh, trades, signVars, utilVars,
                   sideVars>>

\* The call in progress after the attempt of `stage` met `answer`.
afterAttempt(c, v, e, stage, answer) ==
    LET o == c.order.id
        r == attemptPrecreate(v, stage, answer, OrderIdString(o))
        next == nextStage(v, stage, r.success)
        attempts == IF r.success THEN c.attempts
                    ELSE Append(c.attempts, r.meta)
        log == c.log \cup r.logged
    IN  [c EXCEPT
           !.pc = next,
           !.answer = answer,
           !.attempts = attempts,
           !.log = log,
           !.stages = c.stages
                      \o (IF answer.kind = "throw" THEN <<>> ELSE ResponseStages)
                      \o (IF next = "v2" THEN RequestStages ELSE <<>>),
           !.order = IF next = "save" THEN orderToSave(e, o, r.value)
                     ELSE IF next = "failed" THEN NoOrder
                     ELSE c.order,
           !.error = IF next = "failed"
                     THEN precreateError(v, attempts, log, answer)
                     ELSE NoError]

\* The gateway has a trade for the order once it answered with a qr code.
tradesAfter(ts, o, answer) ==
    IF answer.kind = "response"
       /\ ~Falsy(extractResponseFields(answer.data).qrCode)
    THEN ts \cup {o} ELSE ts

\* client.curl('POST', '/v3/alipay/trade/precreate') settles.  The mock
\* variant needs qr code and trade number; the strict variant takes a qr
\* code (out_trade_no standing in for a missing trade number) and otherwise
\* goes on to gateway.do.
GatewayAnswerV3(answer) ==
    /\ co.pc = "v3"
    /\ answer \in GatewayAnswers
    /\ co' = afterAttempt(co, variant, env, "v3", answer)
    /\ trades' = tradesAfter(trades, co.order.id, answer)
    /\ UNCHANGED <<variant, env, driver, store, nextId, nh, alipayClient,
                   constructed, signVars, utilVars, sideVars>>

\* client.exec('alipay.trade.precreate') settles (strict variant).
GatewayAnswerV2(answer) ==
    /\ co.pc = "v2"
    /\ answer \in GatewayAnswers
    /\ co' = afterAttempt(co, variant, env, "v2", answer)
    /\ trades' = tradesAfter(trades, co.order.id, answer)
    /\ UNCHANGED <<variant, env, driver, store, nextId, nh, alipayClient,
                   constructed, signVars, utilVars, sideVars>>

\* saveOrder(order): the driver's create.
SaveOrder ==
    /\ co.pc = "save"
    /\ store' = [store EXCEPT ![co.order.id] = co.order]
    /\ co' = [co EXCEPT !.pc = "done"]
    /\ UNCHANGED <<constructed, variant, env, driver, nextId, nh, trades, alipayClient,
                   signVars, utilVars, sideVars>>

\* createOrder returned or threw; POST /api/orders answers.
CreateOrderReturn ==
    /\ co.pc \in {"done", "failed"}
    /\ co' = CoIdle
    /\ UNCHANGED <<constructed, variant, env, driver, store, nextId, nh, trades,
                   alipayClient, signVars, utilVars, sideVars>>

\* ------------------------------------------------------ the application

\* The signing subsystem at rest, while the application runs.
SignAtRest ==
    /\ phase = "idle"
    /\ params = <<>>
    /\ canon = Undefined
    /\ payload = <<>>
    /\ tamper = NoTamper
    /\ verdict = NoVerdict

Init ==
    /\ SignAtRest
    /\ UtilAtRest
    /\ SideAtRest
    /\ variant \in {"mock", "strict"}
    /\ env \in EnvCases
    /\ driver \in {"memory", "postgres"}
    /\ store = [o \in OrderIds |-> NoOrder]
    /\ nextId = 1
    /\ co = CoIdle
    /\ nh = NhIdle
    /\ trades = {}
    /\ constructed = 0
    /\ alipayClient = NoClient

Next ==
    \/ CreateOrderStart
    \/ \E a \in GatewayAnswers : GatewayAnswerV3(a)
    \/ \E a \in GatewayAnswers : GatewayAnswerV2(a)
    \/ SaveOrder
    \/ CreateOrderReturn
    \/ \E p \in NotifyPayloads : NotifyReceive(p)
    \/ NotifyGetOrder
    \/ NotifyMark
    \/ NotifyRespond

Spec == Init /\ [][Next]_vars

\* ------------------------------------------- the key utility, exercised

\* The longest bare key given to normalize (two full lines and a rest).
MaxKeyLen == 130

\* A base64 body of n characters.
Body(n) == [i \in 1..n |-> "M"]

\* The key strings given to normalize: bare base64, a PEM text (its body on
\* one line), and a text with a BEGIN marker and no armor.
KeyForms == {"bare", "pem", "marked"}

KeyInput(form, n, kind) ==
    CASE form = "bare" -> Body(n)
      [] form = "pem" -> PemHeader(kind) \o <<Newline>> \o Body(n)
                         \o <<Newline>> \o PemFooter(kind)
      [] form = "marked" -> W_BEGIN \o Body(n)

KeyInit ==
    /\ SignAtRest
    /\ SideAtRest
    /\ SysAtRest
    /\ alipayClient = NoClient
    /\ certFile = <<>>
    /\ certLog = <<>>
    /\ certStable = TRUE
    /\ \E form \in KeyForms, n \in 0..MaxKeyLen, kind \in {"private", "public"} :
          nk = [pc |-> "input", kind |-> kind,
                input |-> KeyInput(form, n, kind), once |-> <<>>,
                twice |-> <<>>]

\* normalize(key)
NormalizeKey ==
    /\ nk.pc = "input"
    /\ nk' = [nk EXCEPT !.pc = "once", !.once = normalize(nk.input, nk.kind)]
    /\ UNCHANGED <<signVars, alipayClient, sysVars, sideVars, certFile,
                   certLog, certStable>>

\* normalize(normalize(key))
NormalizeAgain ==
    /\ nk.pc = "once"
    /\ nk' = [nk EXCEPT !.pc = "twice", !.twice = normalize(nk.once, nk.kind)]
    /\ UNCHANGED <<signVars, alipayClient, sysVars, sideVars, certFile,
                   certLog, certStable>>

KeyNext ==
    \/ NormalizeKey
    \/ NormalizeAgain

SpecKey == KeyInit /\ [][KeyNext]_vars

\* ----------------------------------- the certificate utility, exercised

\* The largest number of units (certificates, stray bytes) of a file.
MaxCerts == 2

CertA == CertUnit(<<"0", "A">>, "sha256WithRSA", <<"K", "a">>)

CertB == CertUnit(<<"1", "b">>, "sha1WithRSA", <<"K", "b">>)

CertC == CertUnit(<<"2", "C">>, "sm3WithSM2", <<"K", "c">>)

\* What a file is made of: certificates, an ASCII byte that belongs to no
\* PEM block, a byte that is no UTF-8.
FileUnits == {CertA, CertB, CertC, ByteUnit(65), ByteUnit(255)}

CertFiles == UNION {[1..n -> FileUnits] : n \in 0..MaxCerts}

\* How the content reaches the utility.
Forms == {"buffer", "string", "path"}

CertCalls ==
    {[op |-> "getSN", form |-> f, isRoot |-> r] : f \in Forms, r \in BOOLEAN}
    \cup {[op |-> "loadPublicKey", form |-> f, isRoot |-> FALSE] : f \in Forms}

NoResult == [ok |-> FALSE, error |-> "none"]

\* fs.readFileSync(path) and its toString().
ContentOf(form, bytes) ==
    IF form = "buffer" THEN Buffer(bytes) ELSE StringOf(decodeUtf8(bytes))

\* What a call returns for the file at hand.
CallResult(call, bytes) ==
    IF call.op = "getSN"
    THEN IF call.form = "path" THEN getSNFromPath(bytes, call.isRoot)
         ELSE getSN(ContentOf(call.form, bytes), call.isRoot)
    ELSE IF call.form = "path" THEN loadPublicKeyFromPath(bytes)
         ELSE loadPublicKey(ContentOf(call.form, bytes))

CertInit ==
    /\ SignAtRest
    /\ SideAtRest
    /\ SysAtRest
    /\ alipayClient = NoClient
    /\ nk = NkIdle
    /\ certFile \in CertFiles
    /\ certLog = [c \in CertCalls |-> NoResult]
    /\ certStable = TRUE

\* The log after a call.
logged(log, call, bytes) == [log EXCEPT ![call] = CallResult(call, bytes)]

\* The call returns what it returned before, if it was made before.
repeats(log, call, bytes) ==
    \/ log[call] = NoResult
    \/ log[call] = CallResult(call, bytes)

\* getSN / getSNFromPath
CallGetSN(form, isRoot) ==
    LET call == [op |-> "getSN", form |-> form, isRoot |-> isRoot]
    IN  /\ certLog' = logged(certLog, call, certFile)
        /\ certStable' = (certStable /\ repeats(certLog, call, certFile))
        /\ UNCHANGED <<signVars, alipayClient, sysVars, sideVars, nk,
                       certFile>>

\* loadPublicKey / loadPublicKeyFromPath
CallLoadPublicKey(form) ==
    LET call == [op |-> "loadPublicKey", form |-> form, isRoot |-> FALSE]
    IN  /\ certLog' = logged(certLog, call, certFile)
        /\ certStable' = (certStable /\ repeats(certLog, call, certFile))
        /\ UNCHANGED <<signVars, alipayClient, sysVars, sideVars, nk,
                       certFile>>

CertNext ==
    \/ \E f \in Forms, r \in BOOLEAN : CallGetSN(f, r)
    \/ \E f \in Forms : CallLoadPublicKey(f)

SpecCert == CertInit /\ [][CertNext]_vars

\* -------------------------------------------- the order query, exercised

\* The number of orders in the store when a query arrives.
MaxQueryOrders == 2

\* String.prototype.toLowerCase on the characters of an address.
toLowerCase(s) ==
    [i \in 1..Len(s) |-> CASE s[i] = "A" -> "a" [] s[i] = "B" -> "b"
                           [] OTHER -> s[i]]

E_a == <<"a", "@">>

E_b == <<"b", "@">>

\* The addresses orders are stored with: createOrder lower-cases them.
StoredEmails == {toLowerCase(E_a), toLowerCase(E_b)}

\* searchParams.get('email'): null, the empty string, or an address as the
\* client wrote it.
EmailParams ==
    {Null, Str(<<>>), Str(E_a), Str(<<"A", "@">>), Str(E_b), Str(<<"B", "@">>)}

\* The order records a store can hold under an id.
QueryOrders(o) ==
    {NoOrder}
    \cup {[exists |-> TRUE, id |-> o, email |-> e, status |-> st,
           tradeNo |-> t, qrCode |-> t] :
             e \in StoredEmails, st \in {"pending", "paid"},
             t \in {Undefined, Tok("x")}}

\* The 400 of a request without email.
BadRequest == [status |-> 400, body |-> [error |-> "email-missing"]]

\* The 404 of the route.
NotFound == [status |-> 404, body |-> [error |-> "order-not-found"]]

\* A handler that returns the order whatever the email.
getOrderResponseAnyEmail(orders, orderId, emailParam) ==
    IF Falsy(emailParam) THEN BadRequest
    ELSE LET order == IF orderId \in DOMAIN orders THEN orders[orderId]
                      ELSE NoOrder
         IN  IF ~order.exists THEN NotFound
             ELSE [status |-> 200,
                   body |-> [id |-> order.id, status |-> order.status,
                             qrCode |-> Coalesce(order.qrCode, Null),
                             tradeNo |-> Coalesce(order.tradeNo, Null)]]

\* GET /api/orders/[orderId]?email=...
getOrderResponse(orders, orderId, emailParam) ==
    IF Falsy(emailParam) THEN BadRequest
    ELSE LET order == IF orderId \in DOMAIN orders THEN orders[orderId]
                      ELSE NoOrder
         IN  IF ~order.exists \/ order.email # toLowerCase(emailParam.s)
             THEN NotFound
             ELSE [status |-> 200,
                   body |-> [id |-> order.id, status |-> order.status,
                             qrCode |-> Coalesce(order.qrCode, Null),
                             tradeNo |-> Coalesce(order.tradeNo, Null)]]

QueryInit ==
    /\ SignAtRest
    /\ SysAtRest
    /\ UtilAtRest
    /\ alipayClient = NoClient
    /\ ex = ExIdle
    /\ cf = CfIdle
    /\ \E orders \in [1..MaxQueryOrders -> UNION {QueryOrders(o) : o \in 1..MaxQueryOrders}],
          orderId \in 1..(MaxQueryOrders + 1), emailParam \in EmailParams :
          /\ \A o \in 1..MaxQueryOrders : orders[o] \in QueryOrders(o)
          /\ qh = [pc |-> "request", orders |-> orders, orderId |-> orderId,
                   emailParam |-> emailParam, response |-> [status |-> 0]]

\* The route handles the request; the store is only read.
QueryOrder ==
    /\ qh.pc = "request"
    /\ qh' = [qh EXCEPT !.pc = "done",
                        !.response = getOrderResponse(qh.orders, qh.orderId,
                                                      qh.emailParam)]
    /\ UNCHANGED <<signVars, alipayClient, sysVars, utilVars, ex, cf>>

\* The client sends the next request.
QueryAgain ==
    /\ qh.pc = "done"
    /\ \E orderId \in 1..(MaxQueryOrders + 1), emailParam \in EmailParams :
          qh' = [qh EXCEPT !.pc = "request", !.orderId = orderId,
                           !.emailParam = emailParam,
                           !.response = [status |-> 0]]
    /\ UNCHANGED <<signVars, alipayClient, sysVars, utilVars, ex, cf>>

QueryNext ==
    \/ QueryOrder
    \/ QueryAgain

SpecQuery == QueryInit /\ [][QueryNext]_vars

\* --------------------------------------- response extraction, exercised

\* The depth of the deepest object of a drawn response body.
MaxNesting == 2

K_data == <<"d", "a", "t", "a">>

\* The objects of a drawn body, numbered: 1 the body, 2 and 3 its children
\* (under 'response' and 'data'), 4 and up the chain below object 2.
Positions == 1..(MaxNesting + 2)

DepthOf(p) == IF p = 1 THEN 0 ELSE IF p <= 3 THEN 1 ELSE p - 2

\* What an object holds of the fields looked for, and in which spelling.
FieldChoices ==
    {[fields |-> "none", camel |-> FALSE]}
    \cup {[fields |-> f, camel |-> c] :
             f \in {"qr", "trade", "both", "emptyQr"}, c \in BOOLEAN}

\* The qr code and the trade number of the object at p name their object.
QrAt(p) == Str(<<"q", ToString(p)>>)

TradeAt(p) == Str(<<"t", ToString(p)>>)

\* The fields of the object at p; `flip` writes them in the other spelling.
FieldEntries(p, choice, flip) ==
    LET camel == (choice.camel # flip)
        qrKey == IF camel THEN K_qrCode ELSE K_qr_code
        tradeKey == IF camel THEN K_tradeNo ELSE K_trade_no
    IN  (IF choice.fields \in {"trade", "both"}
         THEN <<<<tradeKey, TradeAt(p)>>>> ELSE <<>>)
        \o (IF choice.fields \in {"qr", "both"} THEN <<<<qrKey, QrAt(p)>>>>
            ELSE IF choice.fields = "emptyQr" THEN <<<<qrKey, Str(<<>>)>>>>
            ELSE <<>>)

RECURSIVE BodyAt(_, _, _)
\* The object at p with everything below it.
BodyAt(p, choices, flip) ==
    FieldEntries(p, choices[p], flip)
    \o (IF p = 1
        THEN <<<<K_response, Obj(BodyAt(2, choices, flip))>>,
               <<K_data, Obj(BodyAt(3, choices, flip))>>>>
        ELSE IF p = 2 /\ 4 \in Positions
        THEN <<<<K_response, Obj(BodyAt(4, choices, flip))>>>>
        ELSE IF p >= 4 /\ p + 1 \in Positions
        THEN <<<<K_response, Obj(BodyAt(p + 1, choices, flip))>>>>
        ELSE <<>>)

NoFields == [pc |-> "none"]

ExtractInit ==
    /\ SignAtRest
    /\ SysAtRest
    /\ UtilAtRest
    /\ alipayClient = NoClient
    /\ qh = QhIdle
    /\ cf = CfIdle
    /\ \E choices \in [Positions -> FieldChoices] :
          ex = [pc |-> "body", choices |-> choices,
                body |-> BodyAt(1, choices, FALSE),
                respelled |-> BodyAt(1, choices, TRUE),
                fields |-> NoFields, fieldsRespelled |-> NoFields]

\* extractResponseFields(response.data)
ExtractFields ==
    /\ ex.pc = "body"
    /\ ex' = [ex EXCEPT !.pc = "extracted",
                        !.fields = extractResponseFields(ex.body)]
    /\ UNCHANGED <<signVars, alipayClient, sysVars, utilVars, qh, cf>>

\* extractResponseFields of the same response in the other spelling.
ExtractRespelled ==
    /\ ex.pc = "extracted"
    /\ ex' = [ex EXCEPT !.pc = "both",
                 !.fieldsRespelled = extractResponseFields(ex.respelled)]
    /\ UNCHANGED <<signVars, alipayClient, sysVars, utilVars, qh, cf>>

ExtractNext ==
    \/ ExtractFields
    \/ ExtractRespelled

SpecExtract == ExtractInit /\ [][ExtractNext]_vars

\* ------------------------------------------------------- the checkout form

\* Orders the server creates for one mounted form.
MaxFormOrders == 2

FormOrders == 1..MaxFormOrders

\* The component after its first render: useState(false) for creating,
\* useState(null) for activeOrder (orderId 0 is null).  `seen` is the value
\* of creating in the closure of the last render, the one submitOrder reads;
\* `stale` says activeOrder was replaced since the polling effect last ran;
\* `timer` is the order the interval polls, `polls` the orders with a status
\* request in flight, `pushed` the orders router.push was called for.
FormMounted ==
    [creating |-> FALSE, seen |-> FALSE, posts |-> 0, created |-> 0,
     orderId |-> 0, status |-> "none", stale |-> FALSE, timer |-> 0,
     polls |-> {}, pushed |-> {}, last |-> "mounted"]

\* The handler without its `if (creating) return`.
submitOrderUnguarded(f, emailEmpty) ==
    IF emailEmpty
    THEN [f EXCEPT !.creating = FALSE, !.last = "rejected"]
    ELSE [f EXCEPT !.creating = TRUE, !.seen = TRUE,
                   !.posts = f.posts + 1, !.last = "posted"]

\* submitOrder up to its first await: it returns when the rendered creating
\* is true; an email that trims to nothing throws before the fetch, so
\* setCreating(true) and the finally's setCreating(false) land in one batch;
\* otherwise the POST is sent and React renders creating = true before the
\* next event is dispatched.
submitOrder(f, emailEmpty) ==
    IF f.seen THEN [f EXCEPT !.last = "ignored"]
    ELSE IF emailEmpty
    THEN [f EXCEPT !.creating = FALSE, !.last = "rejected"]
    ELSE [f EXCEPT !.creating = TRUE, !.seen = TRUE,
                   !.posts = f.posts + 1, !.last = "posted"]

\* What the POST can settle as: the created order with its status, a
\* response that is not ok, or a rejected fetch.
PostOutcomes == {"pending", "paid", "notOk", "rejected"}

\* submitOrder after its await: a response that is ok makes the order the
\* active one; the finally block sets creating to false in every case.
submitSettled(f, outcome) ==
    IF outcome \in {"pending", "paid"}
    THEN [f EXCEPT !.posts = f.posts - 1, !.creating = FALSE,
                   !.created = f.created + 1, !.orderId = f.created + 1,
                   !.status = outcome, !.stale = TRUE, !.last = "created"]
    ELSE [f EXCEPT !.posts = f.posts - 1, !.creating = FALSE,
                   !.last = "failed"]

\* What a status request can settle as: the order's status, or a failure
\* (not ok, or a rejected fetch), which a silent refresh swallows.
PollOutcomes == {"pending", "paid", "failed"}

\* refreshOrderStatus after its await: the updater changes activeOrder only
\* when it still is the order asked about, to a new object; router.push is
\* called for the order asked about whenever the status is 'paid'.
refreshOrderStatus(f, o, outcome) ==
    IF outcome = "failed" THEN [f EXCEPT !.last = "pollFailed"]
    ELSE [f EXCEPT
            !.status = IF f.orderId = o THEN outcome ELSE f.status,
            !.stale = IF f.orderId = o THEN TRUE ELSE f.stale,
            !.pushed = IF outcome = "paid" THEN f.pushed \cup {o}
                       ELSE f.pushed,
            !.last = "polled"]

\* A render after updates made outside an event: the handlers get the new
\* creating; the polling effect, when activeOrder was replaced, clears the
\* interval, requests the status at once and sets the interval anew.
rendered(f) ==
    IF f.stale
    THEN [f EXCEPT !.seen = f.creating, !.stale = FALSE,
                   !.timer = f.orderId, !.polls = f.polls \cup {f.orderId},
                   !.last = "rendered"]
    ELSE [f EXCEPT !.seen = f.creating, !.last = "rendered"]

FormInit ==
    /\ SignAtRest
    /\ SysAtRest
    /\ UtilAtRest
    /\ alipayClient = NoClient
    /\ qh = QhIdle
    /\ ex = ExIdle
    /\ cf = FormMounted

\* A submit event of the form.
FormSubmit ==
    /\ cf.posts < MaxFormOrders
    /\ \E emailEmpty \in BOOLEAN : cf' = submitOrder(cf, emailEmpty)
    /\ UNCHANGED <<signVars, alipayClient, sysVars, utilVars, qh, ex>>

\* The POST /api/orders of a submission settles.
FormPostSettles ==
    /\ cf.posts > 0
    /\ \E outcome \in PostOutcomes :
          /\ outcome \in {"pending", "paid"} => cf.created < MaxFormOrders
          /\ cf' = submitSettled(cf, outcome)
    /\ UNCHANGED <<signVars, alipayClient, sysVars, utilVars, qh, ex>>

\* React renders the updates queued after an await.
FormRender ==
    /\ cf.stale \/ cf.seen # cf.creating
    /\ cf' = rendered(cf)
    /\ UNCHANGED <<signVars, alipayClient, sysVars, utilVars, qh, ex>>

\* The interval fires: the effect's order is asked about again.
FormTimer ==
    /\ cf.timer # 0
    /\ cf.timer \notin cf.polls
    /\ cf' = [cf EXCEPT !.polls = cf.polls \cup {cf.timer}, !.last = "timer"]
    /\ UNCHANGED <<signVars, alipayClient, sysVars, utilVars, qh, ex>>

\* A status request settles; others for the same order may remain.
FormPollSettles ==
    /\ \E o \in cf.polls, outcome \in PollOutcomes, more \in BOOLEAN :
          cf' = [refreshOrderStatus(cf, o, outcome) EXCEPT
                   !.polls = IF more THEN cf.polls ELSE cf.polls \ {o}]
    /\ UNCHANGED <<signVars, alipayClient, sysVars, utilVars, qh, ex>>

FormNext ==
    \/ FormSubmit
    \/ FormPostSettles
    \/ FormRender
    \/ FormTimer
    \/ FormPollSettles

SpecForm == FormInit /\ [][FormNext]_vars

\* ====================================================== the claims, settled

\* A step of the notify handler (no action moves both requests).
HandlerStep == nh' # nh

\* The order the handler's payload names.
NotifiedOrder == OrderOf(nh.payload)

\* The notification at hand reports a payment.
ReportsPayment ==
    Get(nh.payload, K_trade_status)
        \in {Str(<<"TRADE_SUCCESS">>), Str(<<"TRADE_FINISHED">>)}

\* C1: the notify handler changes the order store only in a step that
\* follows verify(payload) = true for the payload it is handling; when
\* verify returns false the handler answers 400 and the store is as it was.
C1_MutationOnlyAfterVerify ==
    [][ HandlerStep =>
          /\ store' # store =>
                /\ nh.verified = "true"
                /\ nh.payload = nh'.payload
                /\ store'[NotifiedOrder].gatewayPayload = Obj(nh.payload)
          /\ nh'.verified = "false" =>
                /\ nh'.response = "400"
                /\ nh'.pc = "done"
                /\ store' = store ]_vars

\* C1's case: a notification was accepted and its order marked, and the
\* notification at hand failed verification and was answered 400.
C1_Witness ==
    /\ nh.verified = "false"
    /\ nh.response = "400"
    /\ hasAlipayKeyMaterial(env)
    /\ \E o \in OrderIds :
          /\ store[o].exists
          /\ store[o].status = "paid"
          /\ store[o].gatewayPayload.t = "obj"
          /\ HasKey(store[o].gatewayPayload.m, K_sign)

\* No trust material: app id, private key and (public key or public
\* certificate) are not all present.
NoTrustMaterial ==
    \/ env.appId = "unset"
    \/ env.privateKey = "unset"
    \/ (env.publicKey = "unset" /\ env.publicCert = "unset")

\* C2: without trust material no notification is accepted: the verifier
\* cannot be had, or verify rejects, and the handler marks no order.
C2_FailClosed ==
    (NoTrustMaterial /\ nh.pc # "idle") =>
        /\ nh.verified # "true"
        /\ nh.response # "success"

\* C3: for an existing order and a verified notification, the handler ends
\* with the stored status 'paid' if trade_status is TRADE_SUCCESS or
\* TRADE_FINISHED, and with the store unchanged otherwise; it answers
\* 'success' either way.
C3_PaidIffPaymentReported ==
    [][ ( /\ HandlerStep
          /\ nh.pc \in {"getOrder", "mark"}
          /\ nh'.pc = "done"
          /\ nh'.found ) =>
          /\ nh.verified = "true"
          /\ nh'.response = "success"
          /\ IF ReportsPayment
             THEN store'[NotifiedOrder].status = "paid"
             ELSE store' = store ]_vars

\* C3's case: a verified TRADE_FINISHED notification found its order
\* pending and the order is now paid.
C3_Witness ==
    /\ nh.pc = "done"
    /\ nh.found
    /\ nh.verified = "true"
    /\ hasAlipayKeyMaterial(env)
    /\ Get(nh.payload, K_trade_status) = Str(<<"TRADE_FINISHED">>)
    /\ nh.order.status = "pending"
    /\ store[NotifiedOrder].status = "paid"
    /\ nh.response = "success"

\* C4: once createOrder has saved the order and a verified TRADE_SUCCESS
\* notification for it has been handled, in whichever order the steps of
\* the two ran, the stored status is 'paid'.
C4_FinalStatusPaid ==
    ( /\ nh.pc = "done"
      /\ nh.verified = "true"
      /\ Get(nh.payload, K_trade_status) = Str(<<"TRADE_SUCCESS">>)
      /\ NotifiedOrder # 0
      /\ store[NotifiedOrder].exists ) =>
        store[NotifiedOrder].status = "paid"

\* A payload that is malformed or forged: not what the gateway signed.
Forged(p) == p \in ForeignNotifications

\* C9: for a malformed or forged payload verify returns false; it throws
\* only when the configuration gives no trust material.
C9_VerifyRejectsForged ==
    (nh.pc # "idle" /\ Forged(nh.payload)) =>
        \/ nh.verified = "false"
        \/ (nh.verified \in {"throw", "init"} /\ ~hasAlipayKeyMaterial(env))

\* The signature the payload carries.
PayloadSign == Get(payload, K_sign)

\* The payload was signed with the private key of the client's public key.
KeyMatches == PublicOf(PayloadSign.key) = alipayClient.alipayPublicKey

\* a sorts before b byte-wise: at the first place they differ a has the
\* smaller byte, or a is a proper prefix of b.
BytewiseBefore(a, b) ==
    \/ /\ Len(a) < Len(b)
       /\ SubSeq(b, 1, Len(a)) = a
    \/ \E i \in 1..Len(a) :
          /\ i <= Len(b)
          /\ SubSeq(a, 1, i - 1) = SubSeq(b, 1, i - 1)
          /\ CharCode(a[i]) < CharCode(b[i])

\* The non-excluded entries of m, their keys ascending byte-wise.
AscendingEntries(m) ==
    LET kept == DropExcluded(m)
        n    == Len(kept)
    IN  CHOOSE q \in {[i \in 1..n |-> kept[f[i]]] : f \in Permutations(1..n)} :
            \A i \in 1..(n - 1) : BytewiseBefore(q[i][1], q[i + 1][1])

\* C5: canonicalization is deterministic and order-independent: for every
\* insertion order of M's keys canonicalize gives the string computed for
\* the first one, the non-excluded keys ascending byte-wise and joined as
\* key=value with "&".
C5_CanonicalizeOrderIndependent ==
    phase = "canon" =>
        /\ canon = Str(canonicalize(params))
        /\ canon = Str(JoinPairs(AscendingEntries(params)))

\* C5's case: canonicalize was applied, and M's keys were since put into an
\* insertion order that is not the sorted one.
C5_Witness ==
    /\ phase = "canon"
    /\ KeysOf(DropExcluded(params)) = <<K_k, K_Zk>>
    /\ canon = Str(<<"Z", "k", "=", "v", "&", "k", "=", "v">>)

NoSignFields(m) == Excluded(Get(m, K_sign)) /\ Excluded(Get(m, K_sign_type))

\* C7 as stated: for any M, verify of {...M, sign: sign(M, kpriv, signType),
\* sign_type: signType} returns true under the matching public key.
C7_RoundTrip ==
    ( /\ phase = "verified"
      /\ ~tamper.changed
      /\ tamper.declared = tamper.signType
      /\ KeyMatches )
    => verdict = "true"

\* C7, amended: the round trip holds for every M that carries no non-empty
\* sign or sign_type parameter of its own (sign signs them, verify removes
\* them).
C7_RoundTripWithoutSignFields ==
    ( /\ phase = "verified"
      /\ ~tamper.changed
      /\ tamper.declared = tamper.signType
      /\ KeyMatches
      /\ NoSignFields(params) )
    => verdict = "true"

\* C7's case: a non-empty M signed under a sign type other than the
\* client's default, declared in the payload, and verified.
C7_Witness ==
    /\ phase = "verified"
    /\ ~tamper.changed
    /\ tamper.declared = tamper.signType
    /\ tamper.signType # alipayClient.signType
    /\ KeyMatches
    /\ NoSignFields(params)
    /\ DropExcluded(params) # <<>>
    /\ verdict = "true"

\* C8 as stated: a change of any single value of M after signing makes
\* verify return false, and so does a signature under a private key that
\* does not match the configured public key.
C8_TamperDetected ==
    phase = "verified" =>
        /\ tamper.changed => verdict = "false"
        /\ ~KeyMatches => verdict = "false"

\* C8, amended: a change of a single value of M, other than M's own sign or
\* sign_type entry and other than between two excluded values (undefined,
\* null, ""), makes verify return false; so does a mismatched key.
C8_SignedValueTamperDetected ==
    phase = "verified" =>
        /\ ( /\ tamper.changed
             /\ tamper.key \notin {K_sign, K_sign_type}
             /\ ~(Excluded(tamper.old) /\ Excluded(tamper.new)) )
           => verdict = "false"
        /\ ~KeyMatches => verdict = "false"

\* C8's case: a payload that would verify, one signed value changed to
\* another after signing, then verified.
C8_Witness ==
    /\ phase = "verified"
    /\ tamper.changed
    /\ tamper.key = K_k
    /\ tamper.old = Str(<<"v">>)
    /\ tamper.new = Str(<<"w">>)
    /\ tamper.declared = tamper.signType
    /\ KeyMatches
    /\ NoSignFields(params)
    /\ verdict = "false"

\* C10: verify uses the digest of the sign_type the payload declares, the
\* client's configured sign type only if the payload declares none; the
\* outbound signer uses the client's sign type, whatever M says.
C10_DigestSelection ==
    /\ ( /\ phase = "verified"
         /\ ~tamper.changed
         /\ KeyMatches
         /\ ~HasKey(params, K_sign) /\ ~HasKey(params, K_sign_type) )
       => ( verdict = "true" <=>
              PayloadSign.digest =
                 DigestOf(IF tamper.declared = "absent"
                          THEN alipayClient.signType ELSE tamper.declared) )
    /\ phase = "sent" =>
          /\ Get(payload, K_sign_type) = Str(SignTypeString(alipayClient.signType))
          /\ PayloadSign.digest = DigestOf(alipayClient.signType)
          /\ PayloadSign.key = alipayClient.privateKey

\* C10's case: a payload declaring a sign type other than the client's
\* default was verified and accepted.
C10_Witness ==
    /\ phase = "verified"
    /\ ~tamper.changed
    /\ KeyMatches
    /\ tamper.declared \in SignTypes
    /\ tamper.declared # alipayClient.signType
    /\ verdict = "true"

RECURSIVE SplitOn(_, _)
\* String.prototype.split: the pieces of s between the occurrences of sep.
SplitOn(s, sep) ==
    IF \A i \in 1..Len(s) : s[i] # sep THEN <<s>>
    ELSE LET i == CHOOSE k \in 1..Len(s) :
                     s[k] = sep /\ \A j \in 1..(k - 1) : s[j] # sep
         IN  <<SubSeq(s, 1, i - 1)>> \o SplitOn(SubSeq(s, i + 1, Len(s)), sep)

RECURSIVE Concat(_)
Concat(ss) == IF ss = <<>> THEN <<>> ELSE Head(ss) \o Concat(Tail(ss))

\* text is body in PEM armor of the kind's label: header line, the body in
\* lines of 64 columns (the last one may be shorter), footer line.
IsArmor(text, kind, body) ==
    LET lines == SplitOn(text, Newline)
        n == Len(lines)
    IN  /\ n >= 3
        /\ lines[1] = PemHeader(kind)
        /\ lines[n] = PemFooter(kind)
        /\ \A i \in 2..(n - 1) :
              /\ Len(lines[i]) <= 64
              /\ i < n - 1 => Len(lines[i]) = 64
        /\ Concat(SubSeq(lines, 2, n - 1)) = body

\* C11: normalize(normalize(key)) = normalize(key); a key without a BEGIN
\* marker comes out in 64-column PEM armor with the label of its kind, a
\* key with a BEGIN marker comes out as it went in.
C11_NormalizeIdempotent ==
    /\ nk.pc = "twice" => nk.twice = nk.once
    /\ nk.pc \in {"once", "twice"} =>
          IF Contains(nk.input, W_BEGIN)
          THEN nk.once = nk.input
          ELSE IsArmor(nk.once, nk.kind, nk.input)

\* C11's case: a bare key of more than two lines was normalized twice.
C11_Witness ==
    /\ nk.pc = "twice"
    /\ ~Contains(nk.input, W_BEGIN)
    /\ Len(nk.input) > 128
    /\ nk.once # nk.input

\* The calls of one operation on the file at hand, whatever the form of
\* the content.
SameOperation(c1, c2) == c1.op = c2.op /\ c1.isRoot = c2.isRoot

\* C12: getSN(content, false) and loadPublicKey(content) return the same
\* for the buffer, for the string of the same bytes and for the path of the
\* file, and the same on every repeated call.
C12_SameForBufferStringPath ==
    /\ certStable
    /\ \A c1, c2 \in DOMAIN certLog :
          ( /\ SameOperation(c1, c2)
            /\ ~c1.isRoot
            /\ certLog[c1] # NoResult
            /\ certLog[c2] # NoResult ) => certLog[c1] = certLog[c2]

\* C12's case: the serial number of a certificate was taken from the
\* buffer, from the string and from the path.
C12_Witness ==
    /\ certFile # <<>>
    /\ \A f \in Forms :
          /\ certLog[[op |-> "getSN", form |-> f, isRoot |-> FALSE]].ok
          /\ certLog[[op |-> "loadPublicKey", form |-> f, isRoot |-> FALSE]].ok

\* The entries of the bundle that are retained: RSA-signed, and not
\* SHA1-signed next to a SHA256-signed one.
RetainedEntries(bundle) ==
    {i \in 1..Len(bundle) :
        /\ bundle[i].alg \in {"sha1WithRSA", "sha256WithRSA"}
        /\ bundle[i].alg = "sha1WithRSA" =>
              \A j \in 1..Len(bundle) : bundle[j].alg # "sha256WithRSA"}

\* The k-th smallest element of a set of numbers.
KthOf(S, k) == CHOOSE i \in S : Cardinality({j \in S : j < i}) = k - 1

\* The segments of a '_'-joined string; the empty string has none.
Segments(s) == IF s = <<>> THEN <<>> ELSE SplitOn(s, "_")

\* The file is empty or holds something that is no certificate.
Malformed(bytes) ==
    bytes = <<>> \/ \E i \in 1..Len(bytes) : bytes[i].t # "cert"

Transmits ==
    Cardinality({i \in 1..Len(co.stages) : co.stages[i] = "TRANSMIT"})

\* s is the start of t.
IsPrefix(s, t) == Len(s) <= Len(t) /\ SubSeq(t, 1, Len(s)) = s

\* The stages of one attempt: a request, and what is done with a response
\* when one came.
AttemptRuns == {RequestStages, RequestStages \o ResponseStages}

\* The records of a response body: the body and the objects in it.
RecordsOf(data) ==
    {data} \cup {data[i][2].m : i \in {j \in 1..Len(data) : data[j][2].t = "obj"}}

\* The answer is a response that holds a non-empty qr code.
CarriesQrCode(answer) ==
    /\ answer.kind = "response"
    /\ \E r \in RecordsOf(answer.data) :
         \E i \in 1..Len(r) :
            /\ r[i][1] \in {K_qr_code, K_qrCode}
            /\ r[i][2].t = "str"
            /\ r[i][2].s # <<>>

\* C14: one createPreOrder call runs BUILD_PARAMS, SIGN, TRANSMIT,
\* UNWRAP_ENVELOPE, EXTRACT_RESULT in that order once: it transmits no
\* second request after a failed or malformed response, and a failure
\* reaches the caller as a GatewayError.
C14_OneSequenceOnce ==
    /\ IsPrefix(co.stages, RequestStages \o ResponseStages)
    /\ (co.pc = "failed" /\ co.stages # <<>>) => co.error.name = "GatewayError"

\* C14 as the code has it: a call is one attempt in the mock variant and at
\* most two in the strict variant (the REST endpoint, then gateway.do only
\* after the REST attempt brought no qr code); every attempt runs
\* BUILD_PARAMS, SIGN, TRANSMIT and, on a response, UNWRAP_ENVELOPE and
\* EXTRACT_RESULT, in that order; a failure reaches the caller as a
\* GatewayError.
C14_OneAttemptPerTransport ==
    /\ \/ co.stages = <<>>
       \/ co.stages \in AttemptRuns
       \/ /\ variant = "strict"
          /\ \E a, b \in AttemptRuns : co.stages = a \o b
    /\ Transmits >= 2 => /\ co.attempts # <<>>
                         /\ co.attempts[1].stage = Tok("v3")
    /\ co.pc = "v2" => ~CarriesQrCode(co.answer)
    /\ (co.pc = "failed" /\ co.stages # <<>>) =>
          /\ co.error.name = "GatewayError"
          /\ ~CarriesQrCode(co.answer) \/ variant = "mock"

\* C14's case: the strict variant's call failed on the REST endpoint, then
\* on gateway.do, and threw.
C14_Witness ==
    /\ variant = "strict"
    /\ co.pc = "failed"
    /\ Transmits = 2
    /\ co.error.name = "GatewayError"

\* C15: when the REST attempt and the gateway.do attempt both failed, the
\* GatewayError holds the diagnostics (stage, HTTP status, error code,
\* error message, trace id) of both attempts, not only of the last one.
C15_AggregatesAllAttempts ==
    (co.pc = "failed" /\ Len(co.attempts) = 2) =>
       \A i \in 1..2 :
          DiagItems(co.attempts[i]) \subseteq
             (co.error.message \cup co.error.debugLog)

\* The code of a gateway response, wherever in the body it stands.
HasCode(answer, code) ==
    /\ answer.kind = "response"
    /\ \E r \in RecordsOf(answer.data) :
         \E i \in 1..Len(r) : r[i][1] = K_code /\ r[i][2] = Tok(code)

\* The details of an error: its message and its debug log.
ErrorDetails(error) == {d[3] : d \in error.message \cup error.debugLog}

\* C16: extraction reports success only for a response whose code is
\* "10000"; a response with any other code fails, with an error that carries
\* the gateway's sub_msg, whatever else (a qr code included) it holds.
C16_SuccessOnlyOnCode10000 ==
    /\ (co.pc = "save" /\ co.gateway = "alipay") => HasCode(co.answer, "10000")
    /\ ( /\ co.pc \in {"save", "failed"}
         /\ HasCode(co.answer, "40004") ) =>
          /\ co.pc = "failed"
          /\ Tok("insufficient balance") \in ErrorDetails(co.error)

\* The answer is a response that holds a trade number.
CarriesTradeNo(answer) ==
    /\ answer.kind = "response"
    /\ \E r \in RecordsOf(answer.data) :
         \E i \in 1..Len(r) :
            /\ r[i][1] \in {K_trade_no, K_tradeNo}
            /\ r[i][2].t = "str"
            /\ r[i][2].s # <<>>

\* C17: a response without a non-empty qr code (qr_code / qrCode) never
\* makes a pre-order, even with code "10000" and a trade number: the call
\* goes on to the next transport or fails, and what createOrder saves has
\* the qr code of the response.
C17_NoQrNoPreOrder ==
    /\ (co.answer.kind = "response" /\ ~CarriesQrCode(co.answer)) =>
          co.pc \in {"v2", "failed"}
    /\ (co.pc \in {"save", "done"} /\ co.gateway = "alipay") =>
          /\ CarriesQrCode(co.answer)
          /\ co.order.qrCode.t = "str"
          /\ co.order.qrCode.s # <<>>

\* C17's case: the last transport answered code "10000" with a trade number
\* and an empty qr code, and the call failed.
C17_Witness ==
    /\ co.pc = "failed"
    /\ HasCode(co.answer, "10000")
    /\ CarriesTradeNo(co.answer)
    /\ ~CarriesQrCode(co.answer)
    /\ co.error.name = "GatewayError"

\* C18: under every interleaving of createPreOrder and getNotifyVerifier
\* calls at most one AlipaySdk is constructed, every call that got a client
\* got the module's one, and a built client is never replaced or changed.
C18_SingleClient ==
    [][ /\ constructed' <= 1
        /\ alipayClient.built => alipayClient' = alipayClient
        /\ co'.client.built => co'.client = alipayClient'
        /\ nh'.client.built => nh'.client = alipayClient' ]_vars

\* C18's case: an order creation and a notification are in progress at the
\* same time, both hold the client, and it was constructed once.
C18_Witness ==
    /\ constructed = 1
    /\ co.pc \in {"v3", "v2"}
    /\ nh.pc \in {"getOrder", "mark"}
    /\ co.client.built
    /\ nh.client = co.client

\* The variable is unset, empty, or the literal 'undefined' / 'null'.
Missing(x) == x \in {"unset", "literal"}

\* The names of the configuration that is missing.
MissingConfig ==
    {n \in {"ALIPAY_APP_ID", "ALIPAY_PRIVATE_KEY",
            "ALIPAY_ALIPAY_PUBLIC_KEY or ALIPAY_ALIPAY_PUBLIC_CERT_PATH"} :
        \/ n = "ALIPAY_APP_ID" /\ Missing(env.appId)
        \/ n = "ALIPAY_PRIVATE_KEY" /\ Missing(env.privateKey)
        \/ /\ n = "ALIPAY_ALIPAY_PUBLIC_KEY or ALIPAY_ALIPAY_PUBLIC_CERT_PATH"
           /\ Missing(env.publicKey)
           /\ Missing(env.publicCert)}

\* C19: in the strict variant with the app id, the private key, or both the
\* public key and the public certificate path missing, createPreOrder
\* throws a GatewayError that names what is missing; no client is
\* constructed, no request is transmitted, no trade and no order is made.
C19_RefusesWithoutConfig ==
    (variant = "strict" /\ MissingConfig # {}) =>
       /\ co.pc \in {"idle", "failed"}
       /\ co.stages = <<>>
       /\ constructed = 0
       /\ ~alipayClient.built
       /\ trades = {}
       /\ \A o \in OrderIds : ~store[o].exists
       /\ co.pc = "failed" => /\ co.error.name = "GatewayError"
                              /\ co.error.missing = MissingConfig

\* C19's case: the public key is the literal string 'undefined', no
\* certificate path is set, and an order creation was refused.
C19_Witness ==
    /\ variant = "strict"
    /\ env.publicKey = "literal"
    /\ env.publicCert = "unset"
    /\ co.pc = "failed"
    /\ co.error.missing # {}

\* C20: in the mock variant without key material createOrder transmits
\* nothing and makes no trade at the gateway, its result has gateway
\* 'mock', and the order it saves is 'paid' from the start.
C20_MockModePaid ==
    (variant = "mock" /\ NoTrustMaterial) =>
       /\ co.stages = <<>>
       /\ trades = {}
       /\ co.pc \in {"idle", "save", "done"}
       /\ co.pc \in {"save", "done"} => /\ co.gateway = "mock"
                                        /\ co.order.status = "paid"
       /\ \A o \in OrderIds : store[o].exists => store[o].status = "paid"

\* C20's case: the mock variant without key material created an order and
\* saved it.
C20_Witness ==
    /\ variant = "mock"
    /\ NoTrustMaterial
    /\ co.pc = "done"
    /\ co.gateway = "mock"
    /\ store[co.order.id].exists
    /\ store[co.order.id].status = "paid"

\* The transmit failed: the call to the gateway was rejected (network
\* failure, non-2xx status).
TransportFailure(answer) == answer.kind = "throw"

\* The gateway answered with a code that is no success, and no qr code.
BusinessFailure(answer) ==
    /\ answer.kind = "response"
    /\ ~HasCode(answer, "10000")
    /\ ~CarriesQrCode(answer)

\* The kind of the error createPreOrder throws when its last attempt met
\* the answer.
KindOfFailure(v, answer) ==
    LET stage == IF v = "strict" THEN "v2" ELSE "v3"
        r == attemptPrecreate(v, stage, answer, Tok("o"))
    IN  precreateError(v, <<r.meta>>, r.logged, answer).name

\* C21: the error of a transport failure is of another kind than the error
\* of any business failure, so that the caller tells them apart by the
\* error alone.
C21_TransportErrorDistinct ==
    (co.pc = "failed" /\ co.stages # <<>> /\ TransportFailure(co.answer)) =>
       \A b \in GatewayAnswers :
          BusinessFailure(b) => KindOfFailure(variant, b) # co.error.name

\* C22: a createOrder call whose createPreOrder fails (missing
\* configuration, rejected or timed-out transmit, gateway failure) writes
\* nothing: the failing step and the return leave the store as it was, and
\* the order of the call was never stored.
C22_NoOrderOnFailure ==
    [][ /\ (co.pc = "idle" /\ co'.pc = "failed") =>
              /\ store' = store
              /\ ~store[nextId].exists
        /\ (co.pc \in {"v3", "v2"} /\ co'.pc = "failed") =>
              /\ store' = store
              /\ ~store[co.order.id].exists
        /\ (co.pc = "failed" /\ co'.pc = "idle") => store' = store ]_vars

\* C22's case: with an order in the store, a later createOrder call failed
\* on a rejected transmit.
C22_Witness ==
    /\ co.pc = "failed"
    /\ TransportFailure(co.answer)
    /\ \E o \in OrderIds : store[o].exists

\* The order a query names, if the store holds it.
QueriedOrder ==
    IF qh.orderId \in DOMAIN qh.orders THEN qh.orders[qh.orderId] ELSE NoOrder

\* The request's email parameter is there and, lower-cased, is the email
\* the queried order is stored with.
EmailMatches ==
    /\ qh.emailParam.t = "str"
    /\ qh.emailParam.s # <<>>
    /\ QueriedOrder.exists
    /\ toLowerCase(qh.emailParam.s) = QueriedOrder.email

\* C23: GET /api/orders/[orderId] returns the order's fields only when the
\* email parameter, lower-cased, equals the stored email; a missing email
\* yields 400; an unknown id and a non-matching email yield one and the
\* same 404, with no field of an order in it.
C23_QueryRequiresEmail ==
    qh.pc = "done" =>
       /\ qh.response.status \in {200, 400, 404}
       /\ qh.response.status = 200 <=> EmailMatches
       /\ qh.response.status = 400 <=>
             (qh.emailParam = Null \/ qh.emailParam = Str(<<>>))
       /\ qh.response.status = 200 =>
             /\ qh.response.body.id = QueriedOrder.id
             /\ qh.response.body.status = QueriedOrder.status
       /\ qh.response.status = 404 => qh.response = NotFound
       /\ qh.response.status # 200 => DOMAIN qh.response.body = {"error"}

\* C23's case: an order was returned to a request that wrote the email in
\* upper case, and another order exists that the email does not match.
C23_Witness ==
    /\ qh.pc = "done"
    /\ qh.response.status = 200
    /\ qh.emailParam.s # QueriedOrder.email
    /\ \E o \in DOMAIN qh.orders :
          qh.orders[o].exists /\ qh.orders[o].email # QueriedOrder.email

\* How many requests a call has transmitted.
TransmitsOf(c) ==
    Cardinality({i \in 1..Len(c.stages) : c.stages[i] = "TRANSMIT"})

\* C24: the two-stage createPreOrder always starts with the V3 REST
\* attempt; it makes the gateway.do attempt if and only if the V3 attempt
\* did not succeed; a successful V3 result is returned with no gateway.do
\* transmit; the gateway.do attempt ends the call.
C24_FixedStrategyOrder ==
    [][ variant = "strict" =>
          /\ (co.pc = "idle" /\ co'.pc \notin {"idle", "failed"}) =>
                /\ co'.pc = "v3"
                /\ TransmitsOf(co') = 1
          /\ (co'.pc = "v2" /\ co.pc # "v2") => co.pc = "v3"
          /\ (co.pc = "v3" /\ co'.pc # "v3") =>
                /\ co'.pc = "v2" <=> ~CarriesQrCode(co'.answer)
                /\ co'.pc = "save" <=> CarriesQrCode(co'.answer)
                /\ TransmitsOf(co') = IF co'.pc = "v2" THEN 2 ELSE 1
          /\ (co.pc = "v2" /\ co' # co) =>
                /\ co'.pc \in {"save", "failed"}
                /\ TransmitsOf(co') = 2 ]_vars

\* C24's case: the V3 attempt failed and the gateway.do attempt made the
\* pre-order.
C24_Witness ==
    /\ variant = "strict"
    /\ co.pc = "save"
    /\ Len(co.attempts) = 1
    /\ co.attempts[1].stage = Tok("v3")
    /\ TransmitsOf(co) = 2

\* The objects of the drawn body that hold a non-empty qr code / a trade
\* number.
QrCandidates == {p \in Positions : ex.choices[p].fields \in {"qr", "both"}}

TradeCandidates ==
    {p \in Positions : ex.choices[p].fields \in {"trade", "both"}}

\* value is the field of a shallowest candidate; undefined without one.
ShallowestOf(value, candidates, at(_)) ==
    IF candidates = {} THEN value = Undefined
    ELSE \E p \in candidates :
            /\ value = at(p)
            /\ \A q \in candidates : DepthOf(p) <= DepthOf(q)

\* C25: extraction finds trade number and qr code in either spelling at any
\* depth of the body; of several candidates the one in the shallowest
\* object wins; the body written in the other spelling yields the same.
C25_BothSpellingsShallowestWins ==
    /\ ex.pc \in {"extracted", "both"} =>
          /\ ShallowestOf(ex.fields.qrCode, QrCandidates, QrAt)
          /\ ShallowestOf(ex.fields.tradeNo, TradeCandidates, TradeAt)
    /\ ex.pc = "both" =>
          /\ ex.fieldsRespelled.qrCode = ex.fields.qrCode
          /\ ex.fieldsRespelled.tradeNo = ex.fields.tradeNo

\* C25's case: the only qr code sits at the deepest object in camelCase,
\* trade numbers sit at two depths, and both spellings were extracted.
C25_Witness ==
    /\ ex.pc = "both"
    /\ QrCandidates = {MaxNesting + 2}
    /\ ex.choices[MaxNesting + 2].camel
    /\ \E p, q \in TradeCandidates : DepthOf(p) < DepthOf(q)
    /\ ex.body # ex.respelled

\* C26: markOrderStatus leaves a field that was not supplied in its options
\* as it was stored: every update of a stored order keeps the order's qr
\* code, with the in-memory driver as with Postgres.
C26_UnsuppliedFieldsKept ==
    [][ \A o \in OrderIds :
           (store[o].exists /\ store'[o] # store[o]) =>
              store'[o].qrCode = store[o].qrCode ]_vars

\* C27: order status is monotonic: an order stored as 'paid' stays stored
\* and 'paid' through every step of createOrder and of the notify handler
\* (order queries leave the store as it is: getOrder only reads).
C27_PaidStaysPaid ==
    [][ \A o \in OrderIds :
           (store[o].exists /\ store[o].status = "paid") =>
              (store'[o].exists /\ store'[o].status = "paid") ]_vars

\* C27's case: an order already paid was notified of a status that is no
\* payment, the notification was answered, and the order is paid still.
C27_Witness ==
    /\ nh.pc = "done"
    /\ nh.found
    /\ nh.verified = "true"
    /\ Get(nh.payload, K_trade_status) = Str(<<"WAIT_BUYER_PAY">>)
    /\ nh.order.status = "paid"
    /\ nh.response = "success"
    /\ store[NotifiedOrder].status = "paid"
    /\ nextId > NotifiedOrder + 1

\* The order as getOrder read it had this payload applied already.
HandledBefore ==
    /\ nh.found
    /\ ReportsPayment
    /\ nh.order.status = "paid"
    /\ nh.order.gatewayPayload = Obj(nh.payload)

\* C28: handling is idempotent: when the notification at hand was handled
\* before, this delivery is answered 'success' and leaves the stored
\* order's status, tradeNo, qrCode and gatewayPayload as the first left them.
C28_HandlingIdempotent ==
    (nh.pc = "done" /\ HandledBefore) =>
       /\ nh.response = "success"
       /\ store[NotifiedOrder].exists
       /\ store[NotifiedOrder].status = nh.order.status
       /\ store[NotifiedOrder].tradeNo = nh.order.tradeNo
       /\ store[NotifiedOrder].qrCode = nh.order.qrCode
       /\ store[NotifiedOrder].gatewayPayload = nh.order.gatewayPayload

\* C28's case: a genuine payment notification carrying a trade number,
\* delivered and handled a second time.
C28_Witness ==
    /\ nh.pc = "done"
    /\ HandledBefore
    /\ nh.verified = "true"
    /\ hasAlipayKeyMaterial(env)
    /\ Get(nh.payload, K_trade_no) # Undefined
    /\ nh.response = "success"
    /\ store[NotifiedOrder].tradeNo = Get(nh.payload, K_trade_no)

\* C29: in CheckoutForm at most one POST /api/orders is in flight: a submit
\* event arriving while a submission is pending sends none, and creating is
\* false again whenever no submission is pending, succeeded or failed.
C29_OnePostInFlight ==
    cf # CfIdle =>
       /\ cf.posts <= 1
       /\ cf.posts = 0 => ~cf.creating
       /\ cf.creating => cf.seen

\* C29's case: an order was created, the form was submitted again, and a
\* further submit event arrived while that POST was pending and was dropped.
C29_Witness ==
    /\ cf # CfIdle
    /\ cf.orderId # 0
    /\ cf.posts = 1
    /\ cf.creating
    /\ cf.last = "ignored"

\* C30: a status response for an order that is not the form's active order
\* neither changes activeOrder nor navigates: router.push is called only for
\* the order that is active when the response arrives.
C30_StalePollNoEffect ==
    [][ cf # CfIdle =>
           \A o \in cf'.pushed \ cf.pushed : o = cf.orderId ]_vars

=============================================================================
